---- MODULE Spec2Model ----
(***************************************************************************)
(* Model of the Grasshopper BACnet topology scanner                        *)
(*   Grasshopper/grasshopper/bacpypes3_scanner.py  (scan orchestration,     *)
(*       adaptive Who-Is windows, BBMD probe, router discovery)             *)
(*   Grasshopper/grasshopper/rdf_components.py     (typed node model over   *)
(*       an RDF triple set)                                                 *)
(***************************************************************************)
EXTENDS Integers, Sequences, FiniteSets, TLC

(***************************************************************************)
(* Bounds of the model                                                     *)
(***************************************************************************)
MaxDeviceId == 3      \* device identifiers of the model are 0..MaxDeviceId
MaxIAms == 2          \* I-Am responses handled in one scan
MaxRouters == 2       \* I-Am-Router-To-Network responses handled in one scan
MaxStep == 2          \* largest step size configured in SpecWindows
timeout == 2          \* clock ticks of one timeout period (timeout=5 seconds)
MaxWrites == 3        \* relation triples written in SpecRelations
MaxTasks == 3         \* compare tasks accepted by the API
MaxDiffNodes == 2     \* device nodes in the graphs handed to the diff
MaxWindows == 5       \* Who-Is windows followed in SpecSteps
MaxList == 1          \* addresses in a list stored in the device configuration

(***************************************************************************)
(* Generic helpers                                                         *)
(***************************************************************************)
Range(s) == {s[i] : i \in DOMAIN s}

Min2(a, b) == IF a < b THEN a ELSE b

RECURSIVE Pow2(_)
Pow2(n) == IF n = 0 THEN 1 ELSE 2 * Pow2(n - 1)

\* dotted quad a.b.c.d as the integer the ipaddress module keeps in _ip
IPv4(a, b, c, d) == ((a * 256 + b) * 256 + c) * 256 + d

(***************************************************************************)
(* ipaddress.ip_network(x, strict=False) and "ip in subnet"                *)
(* A subnet is <<network_address, prefixlen>>.                             *)
(***************************************************************************)
ip_network(ip, prefixlen) ==
    LET size == Pow2(32 - prefixlen)
    IN  <<(ip \div size) * size, prefixlen>>

InSubnet(ip, subnet) ==
    LET size == Pow2(32 - subnet[2])
    IN  (ip \div size) * size = subnet[1]

(***************************************************************************)
(* Addresses handed over by the BACnet application (pduSource).            *)
(*   <<"ip", n>>        local IPv4 station, n the 32-bit address           *)
(*   <<"rs", net, mac>> remote station behind a router (network:mac)       *)
(* ipaddress.ip_address(addr) succeeds on the first form and raises        *)
(* ValueError on the second.                                               *)
(***************************************************************************)
IsIpMappable(addr) == addr[1] = "ip"

ip_address(addr) == addr[2]

addrNet(addr) == addr[2]

(***************************************************************************)
(* RDF terms.  A predicate is the pair <<namespace, local name>>; str() of *)
(* a URIRef is the whole IRI, namespace included.                          *)
(***************************************************************************)
BACnetNS(name) == <<"http://data.ashrae.org/bacnet/2020#", name>>

RDF_type == <<"http://www.w3.org/1999/02/22-rdf-syntax-ns#", "type">>

RDFS_label == <<"http://www.w3.org/2000/01/rdf-schema#", "label">>

\* the local name alone, as if str() dropped the namespace
StrOfPredicateLocalName(predicate) == <<predicate[2]>>

StrOfPredicate(predicate) == predicate

\* BACnetEdgeType._value2member_map_ : the bare enum values
BACnetEdgeType ==
    { <<"bbmd-broadcast-domain">>, <<"bacnet-router-on-subnet">>,
      <<"device-on-subnet">>, <<"device-on-network">>,
      <<"router-for-subnet">>, <<"bdt-entry">>, <<"fdr-entry">> }

\* rdflib Graph.set: drop every (s, p, *) and add (s, p, o)
GraphSet(g, s, p, o) == {t \in g : ~(t[1] = s /\ t[2] = p)} \cup {<<s, p, o>>}

\* rdflib Graph.add
GraphAdd(g, s, p, o) == g \cup {<<s, p, o>>}

overwrite_triple(g, node_iri, predicate, new_object) ==
    IF StrOfPredicate(predicate) \in BACnetEdgeType
    THEN GraphSet(g, node_iri, predicate, new_object)
    ELSE GraphAdd(g, node_iri, predicate, new_object)

(***************************************************************************)
(* Node IRIs and objects                                                   *)
(***************************************************************************)
ScannerIri == <<"node", "Grasshopper", 0>>

DeviceIri(id) == <<"node", "device", id>>

RouterIri(addr) == <<"node", "router", addr>>

SubnetIri(subnet) == <<"node", "subnet", subnet>>

NetworkIri(net) == <<"node", "network", net>>

VendorIri(v) == <<"node", "vendor", v>>

Literal(v) == <<"literal", v>>

(***************************************************************************)
(* Python values passed as keyword arguments: <<"int", n>> or another      *)
(* tagged value; an absent key is None.  bool(x) is False for None and 0.  *)
(***************************************************************************)
PyInt(n) == <<"int", n>>

Truthy(kwargs, key) ==
    /\ key \in DOMAIN kwargs
    /\ (kwargs[key][1] = "int" => kwargs[key][2] # 0)

(***************************************************************************)
(* Type handlers and node classes                                          *)
(***************************************************************************)
TypeOfClass(cls) ==
    CASE cls = "DeviceNode"  -> BACnetNS("Device")
      [] cls = "BBMDNode"    -> BACnetNS("BBMD")
      [] cls = "RouterNode"  -> BACnetNS("Router")
      [] cls = "SubnetNode"  -> BACnetNS("Subnet")
      [] cls = "NetworkNode" -> BACnetNS("Network")

\* BaseNode.__init__ -> set_type -> handler.set_type
BaseNode_init(g, node_iri, cls) ==
    overwrite_triple(g, node_iri, RDF_type, TypeOfClass(cls))

\* BACnetNode.__init__ builds the BaseNode twice on the same IRI
BACnetNode_init(g, node_iri, cls) ==
    BaseNode_init(BaseNode_init(g, node_iri, cls), node_iri, cls)

\* the BBMD node composed without its subnet component
ComponentsOfBbmdNoSubnet(cls) ==
    CASE cls = "BBMDNode" ->
            << <<"AttachDeviceComponent", "bdt-entry">> >>
      [] cls = "DeviceNode" ->
            << <<"NetworkComponent", "device-on-network">>,
               <<"SubnetComponent", "device-on-subnet">> >>
      [] cls = "RouterNode" ->
            << <<"NetworkComponent", "device-on-network">>,
               <<"SubnetComponent", "device-on-subnet">> >>
      [] OTHER -> << >>

\* the components a node class is composed of: <<component class, edge>>
ComponentsOf(cls) ==
    CASE cls = "BBMDNode" ->
            << <<"AttachDeviceComponent", "bdt-entry">>,
               <<"SubnetComponent", "bbmd-broadcast-domain">> >>
      [] cls = "DeviceNode" ->
            << <<"NetworkComponent", "device-on-network">>,
               <<"SubnetComponent", "device-on-subnet">> >>
      [] cls = "RouterNode" ->
            << <<"NetworkComponent", "device-on-network">>,
               <<"SubnetComponent", "device-on-subnet">> >>
      [] OTHER -> << >>

SubnetComponent_add_properties(g, node_iri, edge, kwargs) ==
    IF Truthy(kwargs, "subnet")
    THEN overwrite_triple(g, node_iri, BACnetNS(edge),
                          SubnetIri(kwargs["subnet"][2]))
    ELSE g

NetworkComponent_add_properties(g, node_iri, edge, kwargs) ==
    IF Truthy(kwargs, "network_id")
    THEN overwrite_triple(g, node_iri, BACnetNS(edge),
                          NetworkIri(kwargs["network_id"][2]))
    ELSE g

AttachDeviceComponent_add_properties(g, node_iri, edge, kwargs) ==
    IF Truthy(kwargs, "device_iri")
    THEN overwrite_triple(g, node_iri, BACnetNS(edge), kwargs["device_iri"][2])
    ELSE g

Component_add_properties(g, node_iri, comp, kwargs) ==
    CASE comp[1] = "SubnetComponent" ->
            SubnetComponent_add_properties(g, node_iri, comp[2], kwargs)
      [] comp[1] = "NetworkComponent" ->
            NetworkComponent_add_properties(g, node_iri, comp[2], kwargs)
      [] comp[1] = "AttachDeviceComponent" ->
            AttachDeviceComponent_add_properties(g, node_iri, comp[2], kwargs)

RECURSIVE ApplyComponents(_, _, _, _)
ApplyComponents(g, node_iri, comps, kwargs) ==
    IF comps = << >> THEN g
    ELSE ApplyComponents(Component_add_properties(g, node_iri, Head(comps), kwargs),
                         node_iri, Tail(comps), kwargs)

\* BaseNode.add_properties
BaseNode_add_properties(g, node_iri, kwargs) ==
    IF Truthy(kwargs, "label")
    THEN overwrite_triple(g, node_iri, RDFS_label, Literal(kwargs["label"]))
    ELSE g

\* BACnetNode.add_properties
BACnetNode_add_properties(g, node_iri, cls, kwargs) ==
    LET g1 == BaseNode_add_properties(g, node_iri, kwargs)
        g2 == IF Truthy(kwargs, "device_identifier")
              THEN overwrite_triple(g1, node_iri, BACnetNS("device-instance"),
                                    Literal(kwargs["device_identifier"]))
              ELSE g1
        g3 == IF Truthy(kwargs, "device_address")
              THEN overwrite_triple(g2, node_iri, BACnetNS("address"),
                                    Literal(kwargs["device_address"]))
              ELSE g2
        g4 == IF Truthy(kwargs, "vendor_id")
              THEN overwrite_triple(g3, node_iri, BACnetNS("vendor-id"),
                                    VendorIri(kwargs["vendor_id"]))
              ELSE g3
    IN  ApplyComponents(g4, node_iri, ComponentsOf(cls), kwargs)


(***************************************************************************)
(* Concrete addresses, subnets and configurations of the model             *)
(***************************************************************************)
DeclaredSubnet == ip_network(IPv4(10, 0, 0, 1), 16)     \* "10.0.0.1/16"

ScannerIp == IPv4(10, 0, 0, 2)

BbmdIp == IPv4(10, 0, 0, 10)

NotBbmd == <<"None">>

\* the stations that may answer a Who-Is: address, instance number, vendor and
\* the Broadcast Distribution Table a BBMD among them returns to a read
Devices ==
    { [addr |-> <<"ip", IPv4(10, 0, 0, 5)>>, id |-> 0, vendor |-> 999,
       bdt |-> NotBbmd],
      [addr |-> <<"ip", BbmdIp>>, id |-> 1, vendor |-> 0,
       bdt |-> <<"bdt", <<IPv4(100, 64, 50, 9)>> >>],
      [addr |-> <<"ip", IPv4(100, 64, 50, 9)>>, id |-> 1, vendor |-> 999,
       bdt |-> <<"bdt", <<BbmdIp, IPv4(10, 0, 0, 77)>> >>],
      [addr |-> <<"ip", IPv4(100, 64, 50, 20)>>, id |-> 2, vendor |-> 999,
       bdt |-> NotBbmd],
      [addr |-> <<"ip", IPv4(10, 0, 0, 77)>>, id |-> 0, vendor |-> 999,
       bdt |-> <<"bdt", <<IPv4(100, 64, 50, 9)>> >>],
      [addr |-> <<"rs", 5, 1>>, id |-> 2, vendor |-> 999, bdt |-> NotBbmd],
      [addr |-> <<"rs", 0, 1>>, id |-> 0, vendor |-> 999, bdt |-> NotBbmd] }

\* the table the station at addr returns, NotBbmd when it returns none
BdtOf(addr) ==
    IF \E d \in Devices : d.addr = addr /\ d.bdt # NotBbmd
    THEN (CHOOSE d \in Devices : d.addr = addr /\ d.bdt # NotBbmd).bdt
    ELSE NotBbmd

\* the routers that may answer a Who-Is-Router-To-Network
Routers ==
    { [src |-> <<"ip", IPv4(10, 0, 0, 1)>>, nets |-> <<5>>],
      [src |-> <<"ip", IPv4(100, 64, 99, 1)>>, nets |-> <<5, 6>>],
      [src |-> <<"rs", 7, 2>>, nets |-> <<6>>] }

PrevGraphOf(ids) == {<<DeviceIri(i), RDF_type, BACnetNS("Device")>> : i \in ids}

\* configurations of the whole-scan specification
ScanConfigs ==
    [ low_limit : {0}, high_limit : {MaxDeviceId - 1},
      full : {1}, empty : {2},
      known : {{}, {0}},
      bbmds : {<< >>, <<BbmdIp>>},
      subnets : {<< >>, <<DeclaredSubnet>>} ]

\* configurations of the window specification: every small combination
WindowConfigs ==
    { c \in [ low_limit : 0 .. MaxDeviceId, high_limit : 0 .. MaxDeviceId,
              full : 1 .. MaxStep, empty : 1 .. MaxStep,
              known : SUBSET (0 .. MaxDeviceId),
              bbmds : {<< >>}, subnets : {<<DeclaredSubnet>>} ] :
        c.low_limit <= c.high_limit }

\* configurations of the step-size specification: the step sizes are any
\* small integers, the constructor does not check them
StepConfigs ==
    { c \in [ low_limit : 0 .. MaxDeviceId, high_limit : 0 .. MaxDeviceId,
              full : (0 - MaxStep) .. MaxStep, empty : (0 - MaxStep) .. MaxStep,
              known : SUBSET (0 .. MaxDeviceId),
              bbmds : {<< >>}, subnets : {<<DeclaredSubnet>>} ] :
        c.low_limit <= c.high_limit }

(***************************************************************************)
(* The device configuration: the entry "device_config" of the agent's      *)
(* configuration store and the file device_config.json of the API          *)
(***************************************************************************)
Addresses == {"10.0.0.5", "10.0.0.0/24"}

ConfigKeys == {"bbmd_devices", "subnets"}

\* the Python lists of at most MaxList addresses
Lists == UNION { [1 .. n -> Addresses] : n \in 0 .. MaxList }

PyList(l) == <<"list", l>>

None == <<"None">>

\* a key the dict does not hold
Absent == <<"absent">>

\* a dict over the two keys: each key holds a list or is absent
Configs == [ConfigKeys -> {Absent} \cup {PyList(l) : l \in Lists}]

\* {}
EmptyConfig == [k \in ConfigKeys |-> Absent]

\* os.path.exists(config_path) is false
NoFile == <<"nofile">>

\* vip.config.get raises KeyError
NoConfig == <<"keyerror">>

\* json.dump / json.load of a dict of lists of strings
json_dump(config) == <<"json", config>>

json_load(text) == text[2]

\* no configuration operation was handled yet
NoConfigResp == <<"none", "", None, 0, None>>

(***************************************************************************)
(* State                                                                   *)
(***************************************************************************)
VARIABLES
    pc,                     \* position of get_device_and_router
    cfg,                    \* constructor arguments of the scanner
    prev_graph,             \* self.prev_graph
    graph,                  \* the graph being populated
    subnets,                \* self.subnets
    scanned_networks,       \* self.scanned_networks
    scanned_bbmds,          \* self.scanned_bbmds
    scanned_ipaddress_bbmd, \* self.scanned_ipaddress_bbmd
    scanned_bbmds_bdt,      \* self.scanned_bbmds_bdt
    scanned_bbmds_fdt,      \* self.scanned_bbmds_fdt
    bbmd_in_subnet,         \* self.bbmd_in_subnet
    track_lower,            \* cursor of get_device_objects
    track_upper,            \* end of the current window
    windows,                \* history: the Who-Is windows issued so far
    cur,                    \* the I-Am / network / BBMD being handled
    n_iams,                 \* I-Am responses handled so far
    n_routers,              \* router responses handled so far
    nets_todo,              \* networks get_router_networks still iterates
    fdt_idx,                \* index into self.bbmds of the FDT loop
    read_bdt_future,        \* ase.read_bdt_future   : address -> slot state
    read_fdt_future,        \* ase.read_fdt_future
    req,                    \* the running create_and_await_request
    acks,                   \* Read-BDT-Acks on their way to the scanner
    ev,                     \* history: the step taken last
    hist,                   \* history: requests sent and I-Ams classified
    task_queue,             \* app.state.task_queue
    processing_task_queue,  \* app.state.processing_task_queue
    ttl,                    \* the ttl folder: file name -> content
    compare,                \* the compare folder: <<file name, graph>>
    worker,                 \* process_compare_rdf_queue: position and locals
    resp,                   \* the last HTTP response: <<handler, status>>
    issued,                 \* task ids drawn from uuid4 so far
    device_config,          \* device_config.json in the agent data path
    config_store,           \* the entry "device_config" of vip.config
    config_resp             \* the last configuration operation and its result

scanVars == << pc, cfg, prev_graph, graph, subnets, scanned_networks, scanned_bbmds,
           scanned_ipaddress_bbmd, scanned_bbmds_bdt, scanned_bbmds_fdt,
           bbmd_in_subnet, track_lower, track_upper, windows, cur, n_iams,
           n_routers, nets_todo, fdt_idx, read_bdt_future, read_fdt_future,
           req, acks, ev, hist >>

configVars == << device_config, config_store, config_resp >>

apiVars == << task_queue, processing_task_queue, ttl, compare, worker, resp,
              issued, configVars >>

vars == << scanVars, apiVars >>

scannerVars == << subnets, scanned_networks, scanned_bbmds,
                  scanned_ipaddress_bbmd, scanned_bbmds_bdt,
                  scanned_bbmds_fdt, bbmd_in_subnet >>

EmptyDict == [k \in {} |-> 0]

NoReq == [dest |-> <<"none">>, caller |-> "none", slot |-> "none",
          result |-> <<"None">>, request_class |-> "none",
          t_task |-> 0, t_result |-> 0]

\* nothing was sent or classified yet
NoHist == [wirtn |-> << >>, classified |-> {}]

File1 == <<"file1.ttl">>

File2 == <<"file2.ttl">>

TtlFiles == {File1, File2}

Missing == <<"missing">>

Garbage == <<"garbage">>

Turtle(g) == <<"turtle", g>>

NoTask == [id |-> 0, ttl_1 |-> <<"none">>, ttl_2 |-> <<"none">>]

\* the worker blocks in task_queue.get(); nothing compared yet
WorkerIdle ==
    [pc |-> "get", task |-> NoTask,
     diff |-> [in_both |-> {}, in_first |-> {}, in_second |-> {}],
     done |-> {}, errors |-> {}]

\* the application state the API router starts with
InitApiQueues(files) ==
    /\ task_queue = << >>
    /\ processing_task_queue = << >>
    /\ ttl = files
    /\ compare = {}
    /\ worker = WorkerIdle
    /\ resp = <<"none", 0>>
    /\ issued = 0

\* the API and the agent before any configuration was stored
InitApiWith(files) ==
    /\ InitApiQueues(files)
    /\ device_config = NoFile
    /\ config_store = NoConfig
    /\ config_resp = NoConfigResp

\* bacpypes3_scanner.__init__
InitScanner(c) ==
    /\ cfg = c
    /\ prev_graph = PrevGraphOf(c.known)
    /\ subnets = c.subnets
    /\ scanned_networks = {}
    /\ scanned_bbmds = << >>
    /\ scanned_ipaddress_bbmd = EmptyDict
    /\ scanned_bbmds_bdt = EmptyDict
    /\ scanned_bbmds_fdt = EmptyDict
    /\ bbmd_in_subnet = EmptyDict
    /\ pc = "start"
    /\ graph = {}
    /\ track_lower = c.low_limit
    /\ track_upper = c.low_limit
    /\ windows = << >>
    /\ cur = <<"none">>
    /\ n_iams = 0
    /\ n_routers = 0
    /\ nets_todo = {}
    /\ fdt_idx = 1
    /\ read_bdt_future = EmptyDict
    /\ read_fdt_future = EmptyDict
    /\ req = NoReq
    /\ acks = {}
    /\ ev = <<"init">>
    /\ hist = NoHist

\* a scanner next to an API nobody calls
InitWith(c) ==
    /\ InitScanner(c)
    /\ InitApiWith([f \in TtlFiles |-> Missing])

Init == \E c \in ScanConfigs : InitWith(c)

InitWindows == \E c \in WindowConfigs : InitWith(c)

(***************************************************************************)
(* set_application / set_scanner_node                                      *)
(***************************************************************************)
\* Application.from_args succeeds; the BVLL service element is bound
SetApplication ==
    /\ pc = "start"
    /\ pc' = "set_scanner_node"
    /\ ev' = <<"set_application">>
    /\ UNCHANGED << apiVars, hist, cfg, prev_graph, graph, scannerVars, track_lower,
                    track_upper, windows, cur, n_iams, n_routers, nets_todo,
                    fdt_idx, read_bdt_future, read_fdt_future, req, acks >>

\* the scanner node is written before Application.from_args raises
SetApplicationFailsAfterNode ==
    /\ pc = "start"
    /\ pc' = "raised"
    /\ graph' = BACnetNode_init(graph, ScannerIri, "DeviceNode")
    /\ ev' = <<"set_application_failed">>
    /\ UNCHANGED << apiVars, hist, cfg, prev_graph, scannerVars, track_lower,
                    track_upper, windows, cur, n_iams, n_routers, nets_todo,
                    fdt_idx, read_bdt_future, read_fdt_future, req, acks >>

\* Application.from_args raises: get_device_and_router raises
SetApplicationFails ==
    /\ pc = "start"
    /\ pc' = "raised"
    /\ ev' = <<"set_application_failed">>
    /\ UNCHANGED << apiVars, hist, cfg, prev_graph, graph, scannerVars, track_lower,
                    track_upper, windows, cur, n_iams, n_routers, nets_todo,
                    fdt_idx, read_bdt_future, read_fdt_future, req, acks >>

\* index of the first listed subnet that contains ip, 0 when there is none
FirstMatch(subs, ip) ==
    IF \E i \in DOMAIN subs : InSubnet(ip, subs[i])
    THEN CHOOSE i \in DOMAIN subs :
            /\ InSubnet(ip, subs[i])
            /\ \A j \in DOMAIN subs : InSubnet(ip, subs[j]) => i <= j
    ELSE 0

\* the list is not searched: a /24 is synthesized for every address
add_subnet_to_device_always_new(g, subs, node_iri, cls, ip) ==
    LET device_subnet == ip_network(ip, 24)
    IN  [ graph |-> BACnetNode_add_properties(g, node_iri, cls,
                        [subnet |-> <<"net", device_subnet>>]),
          subnets |-> Append(subs, device_subnet),
          device_subnet |-> device_subnet ]

\* add_subnet_to_device: the graph, the subnet list and the returned subnet
add_subnet_to_device(g, subs, node_iri, cls, ip) ==
    LET i == FirstMatch(subs, ip)
        device_subnet == IF i # 0 THEN subs[i] ELSE ip_network(ip, 24)
    IN  [ graph |-> BACnetNode_add_properties(g, node_iri, cls,
                        [subnet |-> <<"net", device_subnet>>]),
          subnets |-> IF i # 0 THEN subs ELSE Append(subs, device_subnet),
          device_subnet |-> device_subnet ]

SetScannerNode ==
    /\ pc = "set_scanner_node"
    /\ LET g1 == BACnetNode_init(graph, ScannerIri, "DeviceNode")
           g2 == BACnetNode_add_properties(g1, ScannerIri, "DeviceNode",
                    [ label |-> <<"uri", "name">>,
                      device_identifier |-> <<"uri", "instance">>,
                      device_address |-> <<"uri", "address">>,
                      vendor_id |-> <<"uri", "vendoridentifier">> ])
           r == add_subnet_to_device(g2, subnets, ScannerIri, "DeviceNode",
                                     ScannerIp)
       IN  /\ graph' = r.graph
           /\ subnets' = r.subnets
    /\ pc' = "window"
    /\ ev' = <<"set_scanner_node">>
    /\ UNCHANGED << apiVars, hist, cfg, prev_graph, scanned_networks, scanned_bbmds,
                    scanned_ipaddress_bbmd, scanned_bbmds_bdt,
                    scanned_bbmds_fdt, bbmd_in_subnet, track_lower,
                    track_upper, windows, cur, n_iams, n_routers, nets_todo,
                    fdt_idx, read_bdt_future, read_fdt_future, req, acks >>

(***************************************************************************)
(* get_device_objects: the window loop                                     *)
(***************************************************************************)
Known(g, pos) == \E t \in g : t[1] = DeviceIri(pos)

RECURSIVE EndRangeLoop(_, _, _, _, _)
EndRangeLoop(g, current_pos, end_pos, track_routers, full) ==
    IF current_pos < end_pos
    THEN LET tr == IF Known(g, current_pos) THEN track_routers + 1
                   ELSE track_routers
         IN  IF tr >= full THEN current_pos
             ELSE EndRangeLoop(g, current_pos + 1, end_pos, tr, full)
    ELSE end_pos

\* the count has to pass full_step_size before the window is cut
get_known_device_end_range_past_threshold(g, start_pos) ==
    EndRangeLoop(g, start_pos, start_pos + cfg.empty, 0, cfg.full + 1)

\* the prior graph is not consulted: every window takes the empty step
get_known_device_end_range_fixed_step(g, start_pos) == start_pos + cfg.empty

\* a range without known devices ends on its last identifier
get_known_device_end_range_last_in_range(g, start_pos) ==
    LET r == EndRangeLoop(g, start_pos, start_pos + cfg.empty, 0, cfg.full)
    IN  IF r = start_pos + cfg.empty THEN r - 1 ELSE r

get_known_device_end_range(g, start_pos) ==
    EndRangeLoop(g, start_pos, start_pos + cfg.empty, 0, cfg.full)

\* the window end is not clamped
ClampUnclamped(upper) == upper

Clamp(upper) == IF upper > cfg.high_limit THEN cfg.high_limit ELSE upper

\* top of the while loop: compute the window and send the Who-Is
WindowStart ==
    /\ pc = "window"
    /\ track_lower <= cfg.high_limit
    /\ track_upper' = Clamp(get_known_device_end_range(prev_graph, track_lower))
    /\ windows' = Append(windows, <<track_lower, track_upper'>>)
    /\ pc' = "who_is"
    /\ ev' = <<"who_is", track_lower, track_upper'>>
    /\ UNCHANGED << apiVars, hist, cfg, prev_graph, graph, scannerVars, track_lower, cur,
                    n_iams, n_routers, nets_todo, fdt_idx, read_bdt_future,
                    read_fdt_future, req, acks >>

\* the exception of app.who_is leaves get_device_objects
WhoIsFailsAborts ==
    /\ pc = "who_is"
    /\ pc' = "raised"
    /\ ev' = <<"who_is_failed", track_lower, track_upper>>
    /\ UNCHANGED << apiVars, hist, cfg, prev_graph, graph, scannerVars, track_lower,
                    track_upper, windows, cur, n_iams, n_routers, nets_todo,
                    fdt_idx, read_bdt_future, read_fdt_future, req, acks >>

\* app.who_is raises: log, move the cursor, continue
WhoIsFails ==
    /\ pc = "who_is"
    /\ track_lower' = track_upper + 1
    /\ pc' = "window"
    /\ ev' = <<"who_is_failed", track_lower, track_upper>>
    /\ UNCHANGED << apiVars, hist, cfg, prev_graph, graph, scannerVars, track_upper, windows,
                    cur, n_iams, n_routers, nets_todo, fdt_idx,
                    read_bdt_future, read_fdt_future, req, acks >>

\* app.who_is returns its list of I-Ams (revealed one at a time below)
WhoIsReturns ==
    /\ pc = "who_is"
    /\ pc' = "i_ams"
    /\ ev' = <<"who_is_returned", track_lower, track_upper>>
    /\ UNCHANGED << apiVars, hist, cfg, prev_graph, graph, scannerVars, track_lower,
                    track_upper, windows, cur, n_iams, n_routers, nets_todo,
                    fdt_idx, read_bdt_future, read_fdt_future, req, acks >>

\* the for loop over i_ams is exhausted: track_lower = track_upper + 1
WindowEnd ==
    /\ pc = "i_ams"
    /\ track_lower' = track_upper + 1
    /\ pc' = "window"
    /\ ev' = <<"window_end", track_lower, track_upper>>
    /\ UNCHANGED << apiVars, hist, cfg, prev_graph, graph, scannerVars, track_upper, windows,
                    cur, n_iams, n_routers, nets_todo, fdt_idx,
                    read_bdt_future, read_fdt_future, req, acks >>

\* get_device_objects returns while identifiers remain to be scanned
DevicesDoneEarly ==
    /\ pc = "window"
    /\ pc' = "routers"
    /\ nets_todo' = scanned_networks
    /\ ev' = <<"devices_done">>
    /\ UNCHANGED << apiVars, hist, cfg, prev_graph, graph, scannerVars, track_lower,
                    track_upper, windows, cur, n_iams, n_routers, fdt_idx,
                    read_bdt_future, read_fdt_future, req, acks >>

\* the while condition fails: get_device_objects returns
DevicesDone ==
    /\ pc = "window"
    /\ track_lower > cfg.high_limit
    /\ pc' = "routers"
    /\ nets_todo' = scanned_networks
    /\ ev' = <<"devices_done">>
    /\ UNCHANGED << apiVars, hist, cfg, prev_graph, graph, scannerVars, track_lower,
                    track_upper, windows, cur, n_iams, n_routers, fdt_idx,
                    read_bdt_future, read_fdt_future, req, acks >>


(***************************************************************************)
(* Python dict helpers                                                     *)
(***************************************************************************)
DictPut(d, k, v) == [x \in DOMAIN d \cup {k} |-> IF x = k THEN v ELSE d[x]]

DictDel(d, k) == [x \in DOMAIN d \ {k} |-> d[x]]

(***************************************************************************)
(* BVLLServiceElement.create_and_await_request                             *)
(*   pc = "req_task"      awaiting wait_for(task, timeout)                 *)
(*   pc = "req_result"    awaiting wait_for(result_future, timeout)        *)
(*   pc = "req_cancelled" the timeout cancelled result_future; the         *)
(*                        TimeoutError is not yet delivered                *)
(*   pc = "req_return"    the finally block ran, the call returns          *)
(* A registry maps a destination to the state of the future stored there.  *)
(***************************************************************************)
\* what create_and_await_request leaves alone
reqFrame == << apiVars, hist, cfg, prev_graph, graph, scannerVars, track_lower,
               track_upper,
               windows, cur, n_iams, n_routers, nets_todo, fdt_idx,
               read_fdt_future >>

\* the request is registered and started but not awaited
StartRequestDetached(destination, request_class, caller) ==
    /\ read_bdt_future' = DictPut(read_bdt_future, destination, "pending")
    /\ req' = [dest |-> destination, caller |-> caller, slot |-> "pending",
               result |-> <<"None">>, request_class |-> request_class,
               t_task |-> 0, t_result |-> 0]
    /\ pc' = pc

\* lines 132-134: new future, registered under the destination, task created;
\* t_task and t_result are the times the two waits lasted, set as they end
StartRequest(destination, request_class, caller) ==
    /\ read_bdt_future' = DictPut(read_bdt_future, destination, "pending")
    /\ req' = [dest |-> destination, caller |-> caller, slot |-> "pending",
               result |-> <<"None">>, request_class |-> request_class,
               t_task |-> 0, t_result |-> 0]
    /\ pc' = "req_task"

\* BVLLServiceElement.read_broadcast_distribution_table: the request class
\* and the registry it hands to create_and_await_request
read_broadcast_distribution_table(address, caller) ==
    StartRequest(address, "ReadBroadcastDistributionTable", caller)

\* the clock ticks a wait_for(_, timeout) can last before it returns
WaitTimes == 0 .. timeout

\* time spent in the two waits of create_and_await_request
Elapsed == req.t_task + req.t_result

\* lines 147-157 without the registry cleanup
FinallyCleanupSkipped(registry, destination) == registry

\* lines 147-157: the finally block
FinallyCleanup(registry, destination) ==
    IF destination \in DOMAIN registry THEN DictDel(registry, destination)
    ELSE registry

\* the request was sent; the destination answers with a table or stays silent
ReqTaskDone ==
    /\ pc = "req_task"
    /\ pc' = "req_result"
    /\ \/ acks' = acks
       \/ /\ BdtOf(req.dest) # NotBbmd
          /\ acks' = acks \cup {req.dest}
    /\ \E d \in WaitTimes : req' = [req EXCEPT !.t_task = d]
    /\ ev' = <<"req_task_done", req.dest>>
    /\ UNCHANGED << reqFrame, read_bdt_future >>

\* the exception of self.request leaves create_and_await_request
ReqTaskErrorPropagates ==
    /\ pc = "req_task"
    /\ read_bdt_future' = FinallyCleanup(read_bdt_future, req.dest)
    /\ pc' = "raised"
    /\ ev' = <<"req_error", req.dest>>
    /\ UNCHANGED << reqFrame, req, acks >>

\* self.request raises: except Exception, result None
ReqTaskError ==
    /\ pc = "req_task"
    /\ read_bdt_future' = FinallyCleanup(read_bdt_future, req.dest)
    /\ \E d \in WaitTimes :
          req' = [req EXCEPT !.result = <<"None">>, !.t_task = d]
    /\ pc' = "req_return"
    /\ ev' = <<"req_error", req.dest>>
    /\ UNCHANGED << reqFrame, acks >>

\* wait_for(task) times out: the task is cancelled, result None
ReqTaskTimeout ==
    /\ pc = "req_task"
    /\ read_bdt_future' = FinallyCleanup(read_bdt_future, req.dest)
    /\ req' = [req EXCEPT !.result = <<"None">>, !.t_task = timeout]
    /\ pc' = "req_return"
    /\ ev' = <<"req_task_timeout", req.dest>>
    /\ UNCHANGED << reqFrame, acks >>

\* result_future has its result: return it
ReqResultReady ==
    /\ pc = "req_result"
    /\ req.slot = "done"
    /\ read_bdt_future' = FinallyCleanup(read_bdt_future, req.dest)
    /\ \E d \in WaitTimes : req' = [req EXCEPT !.t_result = d]
    /\ pc' = "req_return"
    /\ ev' = <<"req_result", req.dest>>
    /\ UNCHANGED << reqFrame, acks >>

\* wait_for(result_future) times out: the future is cancelled
ReqResultTimeout ==
    /\ pc = "req_result"
    /\ req.slot = "pending"
    /\ req' = [req EXCEPT !.slot = "cancelled", !.t_result = timeout]
    /\ read_bdt_future' =
          IF req.dest \in DOMAIN read_bdt_future
          THEN DictPut(read_bdt_future, req.dest, "cancelled")
          ELSE read_bdt_future
    /\ pc' = "req_cancelled"
    /\ ev' = <<"req_result_timeout", req.dest>>
    /\ UNCHANGED << reqFrame, acks >>

\* the TimeoutError reaches the except clause, then the finally block
ReqFinally ==
    /\ pc = "req_cancelled"
    /\ read_bdt_future' = FinallyCleanup(read_bdt_future, req.dest)
    /\ req' = [req EXCEPT !.result = <<"None">>]
    /\ pc' = "req_return"
    /\ ev' = <<"req_timeout", req.dest>>
    /\ UNCHANGED << reqFrame, acks >>

AwaitPoints == {"who_is", "req_task", "req_result", "req_cancelled",
                "whois_router"}

\* BVLLServiceElement.confirmation for a ReadBroadcastDistributionTableAck
confirmation ==
    /\ pc \in AwaitPoints
    /\ \E src \in acks :
        /\ acks' = acks \ {src}
        /\ IF src \in DOMAIN read_bdt_future
           THEN IF read_bdt_future[src] = "pending"
                THEN /\ req' = IF src = req.dest
                                THEN [req EXCEPT !.slot = "done",
                                                 !.result = BdtOf(src)]
                                ELSE req
                     /\ read_bdt_future' = DictDel(read_bdt_future, src)
                     /\ ev' = <<"ack_delivered", src>>
                ELSE \* set_result raises InvalidStateError, del is skipped
                     /\ UNCHANGED << req, read_bdt_future >>
                     /\ ev' = <<"ack_invalid_state", src>>
           ELSE /\ UNCHANGED << req, read_bdt_future >>
                /\ ev' = <<"ack_ignored", src>>
    /\ UNCHANGED << reqFrame, pc >>

(***************************************************************************)
(* get_device_objects: one I-Am response                                   *)
(***************************************************************************)
IAmKwargs(addr, id, vendor) ==
    [ label |-> <<"iri", DeviceIri(id)>>,
      device_identifier |-> PyInt(id),
      device_address |-> <<"addr", addr>>,
      vendor_id |-> PyInt(vendor) ]

\* "ip in self.bbmds" is tested first: a listed address is not probed
IAmFromIpListFirst ==
    /\ pc = "i_ams"
    /\ n_iams < MaxIAms
    /\ \E d \in Devices :
        /\ d.id \in track_lower .. track_upper
        /\ IsIpMappable(d.addr)
        /\ cur' = <<"i_am", d.addr, d.id, d.vendor>>
        /\ IF ip_address(d.addr) \in Range(cfg.bbmds)
           THEN /\ req' = [NoReq EXCEPT !.dest = d.addr, !.caller = "probe"]
                /\ pc' = "req_return"
                /\ UNCHANGED read_bdt_future
           ELSE read_broadcast_distribution_table(d.addr, "probe")
        /\ ev' = <<"probe_started", d.addr, d.id>>
    /\ n_iams' = n_iams + 1
    /\ UNCHANGED << apiVars, hist, cfg, prev_graph, graph, scannerVars, track_lower,
                    track_upper, windows, n_routers, nets_todo, fdt_idx,
                    read_fdt_future, acks >>

\* an I-Am from an IP address: ip_address succeeds, the BBMD probe starts
\* (check_if_device_is_bbmd -> read_broadcast_distribution_table)
IAmFromIp ==
    /\ pc = "i_ams"
    /\ n_iams < MaxIAms
    /\ \E d \in Devices :
        /\ d.id \in track_lower .. track_upper
        /\ IsIpMappable(d.addr)
        /\ cur' = <<"i_am", d.addr, d.id, d.vendor>>
        /\ read_broadcast_distribution_table(d.addr, "probe")
        /\ ev' = <<"probe_started", d.addr, d.id>>
    /\ n_iams' = n_iams + 1
    /\ UNCHANGED << apiVars, hist, cfg, prev_graph, graph, scannerVars, track_lower,
                    track_upper, windows, n_routers, nets_todo, fdt_idx,
                    read_fdt_future, acks >>

\* the node of the I-Am is written into the prior graph as well
IAmNotIpIntoPrevGraph ==
    /\ pc = "i_ams"
    /\ n_iams < MaxIAms
    /\ \E d \in Devices :
        /\ d.id \in track_lower .. track_upper
        /\ ~IsIpMappable(d.addr)
        /\ cur' = <<"i_am", d.addr, d.id, d.vendor>>
        /\ graph' = BACnetNode_add_properties(
                        BACnetNode_init(graph, DeviceIri(d.id), "DeviceNode"),
                        DeviceIri(d.id), "DeviceNode",
                        IAmKwargs(d.addr, d.id, d.vendor) @@
                            [network_id |-> PyInt(addrNet(d.addr))])
        /\ scanned_networks' = scanned_networks \cup {addrNet(d.addr)}
        /\ prev_graph' = BACnetNode_init(prev_graph, DeviceIri(d.id),
                                         "DeviceNode")
        /\ ev' = <<"i_am_not_ip", d.addr, d.id>>
    /\ n_iams' = n_iams + 1
    /\ UNCHANGED << apiVars, hist, cfg, subnets, scanned_bbmds,
                    scanned_ipaddress_bbmd, scanned_bbmds_bdt,
                    scanned_bbmds_fdt, bbmd_in_subnet, track_lower,
                    track_upper, windows, n_routers, nets_todo, fdt_idx,
                    read_bdt_future, read_fdt_future, req, acks, pc >>

\* an I-Am whose address ip_address rejects: the except ValueError branch
IAmNotIp ==
    /\ pc = "i_ams"
    /\ n_iams < MaxIAms
    /\ \E d \in Devices :
        /\ d.id \in track_lower .. track_upper
        /\ ~IsIpMappable(d.addr)
        /\ cur' = <<"i_am", d.addr, d.id, d.vendor>>
        /\ graph' = BACnetNode_add_properties(
                        BACnetNode_init(graph, DeviceIri(d.id), "DeviceNode"),
                        DeviceIri(d.id), "DeviceNode",
                        IAmKwargs(d.addr, d.id, d.vendor) @@
                            [network_id |-> PyInt(addrNet(d.addr))])
        /\ scanned_networks' = scanned_networks \cup {addrNet(d.addr)}
        /\ ev' = <<"i_am_not_ip", d.addr, d.id>>
    /\ n_iams' = n_iams + 1
    /\ UNCHANGED << apiVars, hist, cfg, prev_graph, subnets, scanned_bbmds,
                    scanned_ipaddress_bbmd, scanned_bbmds_bdt,
                    scanned_bbmds_fdt, bbmd_in_subnet, track_lower,
                    track_upper, windows, n_routers, nets_todo, fdt_idx,
                    read_bdt_future, read_fdt_future, req, acks, pc >>

\* check_if_device_is_bbmd, lines 420-433, on the result of the read
ProbeSaysBbmd(result) == result[1] = "bdt"

\* the probe result is ignored
ClassifyListOnly(probe, ip) ==
    IF ip \in Range(cfg.bbmds) THEN "BBMDNode" ELSE "DeviceNode"

\* lines 569-575: the class of the node built for the I-Am
Classify(probe, ip) ==
    IF probe \/ ip \in Range(cfg.bbmds) THEN "BBMDNode" ELSE "DeviceNode"

\* the read returned to check_if_device_is_bbmd: classify the device, write
\* its properties, associate its subnet, keep the BBMD records
ProbeReturn ==
    /\ pc = "req_return"
    /\ req.caller = "probe"
    /\ LET addr == cur[2]
           id == cur[3]
           ip == ip_address(addr)
           probe == ProbeSaysBbmd(req.result)
           cls == Classify(probe, ip)
           g1 == BACnetNode_init(graph, DeviceIri(id), cls)
           g2 == BACnetNode_add_properties(g1, DeviceIri(id), cls,
                                           IAmKwargs(addr, id, cur[4]))
           r == add_subnet_to_device(g2, subnets, DeviceIri(id), cls, ip)
       IN  /\ scanned_bbmds_bdt' =
                 IF probe THEN DictPut(scanned_bbmds_bdt, ip, req.result[2])
                 ELSE scanned_bbmds_bdt
           /\ graph' = r.graph
           /\ subnets' = r.subnets
           /\ IF cls = "BBMDNode"
              THEN /\ bbmd_in_subnet' =
                         DictPut(bbmd_in_subnet, r.device_subnet, DeviceIri(id))
                   /\ scanned_bbmds' = Append(scanned_bbmds, DeviceIri(id))
                   /\ scanned_ipaddress_bbmd' =
                         DictPut(scanned_ipaddress_bbmd, ip, DeviceIri(id))
              ELSE UNCHANGED << bbmd_in_subnet, scanned_bbmds,
                                scanned_ipaddress_bbmd >>
           /\ ev' = <<"i_am_ip", addr, id, cls, probe, ev[1]>>
           /\ hist' = [hist EXCEPT !.classified =
                                      @ \cup {<<addr, id, cls, req.result>>}]
    /\ req' = NoReq
    /\ pc' = "i_ams"
    /\ UNCHANGED << apiVars, cfg, prev_graph, scanned_networks, scanned_bbmds_fdt,
                    track_lower, track_upper, windows, cur, n_iams, n_routers,
                    nets_todo, fdt_idx, read_bdt_future, read_fdt_future,
                    acks >>


(***************************************************************************)
(* get_router_networks                                                     *)
(***************************************************************************)
\* the loop asks for a network and keeps it in the set it iterates
RouterProbeKeepsNetwork ==
    /\ pc = "routers"
    /\ \E n \in nets_todo :
        /\ cur' = <<"network", n>>
        /\ ev' = <<"who_is_router", n>>
        /\ hist' = [hist EXCEPT !.wirtn = Append(@, n)]
    /\ pc' = "whois_router"
    /\ UNCHANGED << apiVars, cfg, prev_graph, graph, scannerVars, track_lower,
                    track_upper, windows, n_iams, n_routers, nets_todo,
                    fdt_idx, read_bdt_future, read_fdt_future, req, acks >>

\* the for loop picks the next network of self.scanned_networks and sends
\* Who-Is-Router-To-Network for it
RouterProbe ==
    /\ pc = "routers"
    /\ \E n \in nets_todo :
        /\ nets_todo' = nets_todo \ {n}
        /\ cur' = <<"network", n>>
        /\ ev' = <<"who_is_router", n>>
        /\ hist' = [hist EXCEPT !.wirtn = Append(@, n)]
    /\ pc' = "whois_router"
    /\ UNCHANGED << apiVars, cfg, prev_graph, graph, scannerVars, track_lower,
                    track_upper, windows, n_iams, n_routers, fdt_idx,
                    read_bdt_future, read_fdt_future, req, acks >>

\* who_is_router_to_network raises: nothing catches it
WhoIsRouterFails ==
    /\ pc = "whois_router"
    /\ pc' = "raised"
    /\ ev' = <<"who_is_router_failed", cur[2]>>
    /\ UNCHANGED << apiVars, hist, cfg, prev_graph, graph, scannerVars, track_lower,
                    track_upper, windows, cur, n_iams, n_routers, nets_todo,
                    fdt_idx, read_bdt_future, read_fdt_future, req, acks >>

\* who_is_router_to_network returns its list (revealed one at a time below);
\* a timeout returns the empty list
WhoIsRouterReturns ==
    /\ pc = "whois_router"
    /\ pc' = "i_am_routers"
    /\ ev' = <<"who_is_router_returned", cur[2]>>
    /\ UNCHANGED << apiVars, hist, cfg, prev_graph, graph, scannerVars, track_lower,
                    track_upper, windows, cur, n_iams, n_routers, nets_todo,
                    fdt_idx, read_bdt_future, read_fdt_future, req, acks >>

\* lines 386-389: the router node and one add_properties per announced network
RECURSIVE AddRouterNetworks(_, _, _)
AddRouterNetworks(g, router_iri, nets) ==
    IF nets = << >> THEN g
    ELSE AddRouterNetworks(
            BACnetNode_add_properties(g, router_iri, "RouterNode",
                                      [network_id |-> PyInt(Head(nets))]),
            router_iri, Tail(nets))

\* lines 393-396: every listed subnet that contains the router
RECURSIVE AddRouterSubnets(_, _, _, _)
AddRouterSubnets(g, router_iri, subs, ip) ==
    IF subs = << >> THEN g
    ELSE AddRouterSubnets(
            IF InSubnet(ip, Head(subs))
            THEN BACnetNode_add_properties(g, router_iri, "RouterNode",
                                           [subnet |-> <<"net", Head(subs)>>])
            ELSE g,
            router_iri, Tail(subs), ip)

\* lines 397-398: self.scanner_node.add_properties(device_iri=router_iri)
AttachUnassociated(g, router_iri) ==
    BACnetNode_add_properties(g, ScannerIri, "DeviceNode",
                              [device_iri |-> <<"iri", router_iri>>])

\* a response whose source is an IP address
RouterFromIp ==
    /\ pc = "i_am_routers"
    /\ n_routers < MaxRouters
    /\ \E r \in Routers :
        /\ IsIpMappable(r.src)
        /\ LET src == r.src
               router_iri == RouterIri(src)
               ip == ip_address(src)
               g1 == BACnetNode_init(graph, router_iri, "RouterNode")
               g2 == AddRouterNetworks(g1, router_iri, r.nets)
               g3 == AddRouterSubnets(g2, router_iri, subnets, ip)
               not_in_network == \A i \in DOMAIN subnets : ~InSubnet(ip, subnets[i])
           IN  /\ graph' = IF not_in_network
                           THEN AttachUnassociated(g3, router_iri)
                           ELSE g3
               /\ ev' = <<"router", src, not_in_network>>
    /\ n_routers' = n_routers + 1
    /\ UNCHANGED << apiVars, hist, cfg, prev_graph, scannerVars, track_lower, track_upper,
                    windows, cur, n_iams, nets_todo, fdt_idx, read_bdt_future,
                    read_fdt_future, req, acks, pc >>

\* a response whose source ip_address rejects: the ValueError of line 391
\* leaves get_router_networks and get_device_and_router
RouterNotIp ==
    /\ pc = "i_am_routers"
    /\ n_routers < MaxRouters
    /\ \E r \in Routers :
        /\ ~IsIpMappable(r.src)
        /\ graph' = AddRouterNetworks(
                        BACnetNode_init(graph, RouterIri(r.src), "RouterNode"),
                        RouterIri(r.src), r.nets)
        /\ ev' = <<"router_not_ip", r.src>>
    /\ n_routers' = n_routers + 1
    /\ pc' = "raised"
    /\ UNCHANGED << apiVars, hist, cfg, prev_graph, scannerVars, track_lower, track_upper,
                    windows, cur, n_iams, nets_todo, fdt_idx, read_bdt_future,
                    read_fdt_future, req, acks >>

\* the list of responses for this network is exhausted
RoutersEnd ==
    /\ pc = "i_am_routers"
    /\ pc' = "routers"
    /\ ev' = <<"routers_end", cur[2]>>
    /\ UNCHANGED << apiVars, hist, cfg, prev_graph, graph, scannerVars, track_lower,
                    track_upper, windows, cur, n_iams, n_routers, nets_todo,
                    fdt_idx, read_bdt_future, read_fdt_future, req, acks >>

\* every scanned network was asked for: get_router_networks returns
RoutersDone ==
    /\ pc = "routers"
    /\ nets_todo = {}
    /\ pc' = "fdt"
    /\ fdt_idx' = 1
    /\ ev' = <<"routers_done">>
    /\ UNCHANGED << apiVars, hist, cfg, prev_graph, graph, scannerVars, track_lower,
                    track_upper, windows, cur, n_iams, n_routers, nets_todo,
                    read_bdt_future, read_fdt_future, req, acks >>

(***************************************************************************)
(* read_bbmd_fdt for every configured BBMD                                 *)
(***************************************************************************)
\* read_bbmd_fdt calls ase.read_broadcast_distribution_table
FdtStart ==
    /\ pc = "fdt"
    /\ fdt_idx <= Len(cfg.bbmds)
    /\ cur' = <<"bbmd", cfg.bbmds[fdt_idx]>>
    /\ read_broadcast_distribution_table(<<"ip", cfg.bbmds[fdt_idx]>>, "fdt")
    /\ ev' = <<"fdt_started", cfg.bbmds[fdt_idx]>>
    /\ UNCHANGED << apiVars, hist, cfg, prev_graph, graph, scannerVars, track_lower,
                    track_upper, windows, n_iams, n_routers, nets_todo,
                    fdt_idx, read_fdt_future, acks >>

FdtReturn ==
    /\ pc = "req_return"
    /\ req.caller = "fdt"
    /\ scanned_bbmds_fdt' =
          IF req.result[1] = "bdt"
          THEN DictPut(scanned_bbmds_fdt, cur[2], req.result[2])
          ELSE scanned_bbmds_fdt
    /\ fdt_idx' = fdt_idx + 1
    /\ req' = NoReq
    /\ pc' = "fdt"
    /\ ev' = <<"fdt_returned", cur[2]>>
    /\ UNCHANGED << apiVars, hist, cfg, prev_graph, graph, subnets, scanned_networks,
                    scanned_bbmds, scanned_ipaddress_bbmd, scanned_bbmds_bdt,
                    bbmd_in_subnet, track_lower, track_upper, windows, cur,
                    n_iams, n_routers, nets_todo, read_bdt_future,
                    read_fdt_future, acks >>

FdtDone ==
    /\ pc = "fdt"
    /\ fdt_idx > Len(cfg.bbmds)
    /\ pc' = "set_subnet_network"
    /\ ev' = <<"fdt_done">>
    /\ UNCHANGED << apiVars, hist, cfg, prev_graph, graph, scannerVars, track_lower,
                    track_upper, windows, cur, n_iams, n_routers, nets_todo,
                    fdt_idx, read_bdt_future, read_fdt_future, req, acks >>

(***************************************************************************)
(* set_subnet_network, then app.close()                                    *)
(***************************************************************************)
\* lines 620-624: a node per subnet and per scanned network
SubnetAndNetworkNodes(g) ==
    g \cup {<<SubnetIri(subnets[i]), RDF_type, TypeOfClass("SubnetNode")>> :
                i \in DOMAIN subnets}
      \cup {<<NetworkIri(n), RDF_type, TypeOfClass("NetworkNode")>> :
                n \in scanned_networks}

\* a peer is resolved only when its own table was read
BdtRelationsPeersWithTable(g) ==
    LET pairs == { x \in (DOMAIN scanned_bbmds_bdt) \X (DOMAIN scanned_bbmds_bdt) :
                      /\ x[1] \in DOMAIN scanned_ipaddress_bbmd
                      /\ x[2] \in DOMAIN scanned_ipaddress_bbmd
                      /\ x[2] \in Range(scanned_bbmds_bdt[x[1]]) }
    IN  g \cup { <<scanned_ipaddress_bbmd[x[1]], BACnetNS("bdt-entry"),
                   scanned_ipaddress_bbmd[x[2]]>> : x \in pairs }

\* lines 626-634: bbmd.add_properties(device_iri=peer) for every BDT entry
\* that is the address of a scanned BBMD
BdtRelations(g) ==
    LET pairs == { x \in (DOMAIN scanned_bbmds_bdt) \X (DOMAIN scanned_ipaddress_bbmd) :
                      /\ x[1] \in DOMAIN scanned_ipaddress_bbmd
                      /\ x[2] \in Range(scanned_bbmds_bdt[x[1]]) }
    IN  g \cup { <<scanned_ipaddress_bbmd[x[1]], BACnetNS("bdt-entry"),
                   scanned_ipaddress_bbmd[x[2]]>> : x \in pairs }

SetSubnetNetwork ==
    /\ pc = "set_subnet_network"
    /\ graph' = BdtRelations(SubnetAndNetworkNodes(graph))
    /\ pc' = "done"
    /\ ev' = <<"scan_done">>
    /\ UNCHANGED << apiVars, hist, cfg, prev_graph, scannerVars, track_lower, track_upper,
                    windows, cur, n_iams, n_routers, nets_todo, fdt_idx,
                    read_bdt_future, read_fdt_future, req, acks >>

(***************************************************************************)
(* Specifications                                                          *)
(***************************************************************************)
Next ==
    \/ SetApplication
    \/ SetApplicationFails
    \/ SetScannerNode
    \/ WindowStart
    \/ WhoIsFails
    \/ WhoIsReturns
    \/ IAmFromIp
    \/ IAmNotIp
    \/ ReqTaskDone
    \/ ReqTaskError
    \/ ReqTaskTimeout
    \/ ReqResultReady
    \/ ReqResultTimeout
    \/ ReqFinally
    \/ confirmation
    \/ ProbeReturn
    \/ WindowEnd
    \/ DevicesDone
    \/ RouterProbe
    \/ WhoIsRouterFails
    \/ WhoIsRouterReturns
    \/ RouterFromIp
    \/ RouterNotIp
    \/ RoutersEnd
    \/ RoutersDone
    \/ FdtStart
    \/ FdtReturn
    \/ FdtDone
    \/ SetSubnetNetwork

Spec == Init /\ [][Next]_vars

\* the window loop alone, over every small configuration: each Who-Is fails
\* or returns no I-Am
NextWindows ==
    \/ SetApplication
    \/ SetScannerNode
    \/ WindowStart
    \/ WhoIsFails
    \/ WhoIsReturns
    \/ WindowEnd
    \/ DevicesDone

SpecWindows == InitWindows /\ [][NextWindows]_vars

\* the window loop under unchecked step sizes, followed for MaxWindows
\* iterations
InitSteps == \E c \in StepConfigs : InitWith(c)

WindowStartWithin == Len(windows) < MaxWindows /\ WindowStart

NextSteps ==
    \/ SetApplication
    \/ SetScannerNode
    \/ WindowStartWithin
    \/ WhoIsFails
    \/ WhoIsReturns
    \/ WindowEnd
    \/ DevicesDone

SpecSteps == InitSteps /\ [][NextSteps]_vars

(***************************************************************************)
(* The relation writes of the node classes on their own: a node is built   *)
(* on an IRI and one relation is written through add_properties, as        *)
(* get_device_objects, get_router_networks and set_subnet_network do.      *)
(***************************************************************************)
\* node class, relation the class has a component for, keyword argument
RelationCases ==
    ({"DeviceNode", "RouterNode"} \X {"device-on-subnet"} \X
        {<<"subnet", DeclaredSubnet>>,
         <<"subnet", ip_network(IPv4(100, 64, 50, 9), 24)>>})
    \cup
    ({"DeviceNode", "RouterNode"} \X {"device-on-network"} \X
        {<<"network_id", 5>>, <<"network_id", 6>>})
    \cup
    ({"BBMDNode"} \X {"bbmd-broadcast-domain"} \X
        {<<"subnet", DeclaredSubnet>>,
         <<"subnet", ip_network(IPv4(100, 64, 50, 9), 24)>>})
    \cup
    ({"BBMDNode"} \X {"bdt-entry"} \X
        {<<"device_iri", DeviceIri(0)>>, <<"device_iri", DeviceIri(1)>>})

\* the keyword arguments of the call and the object the relation points to
KwargsOf(arg) ==
    CASE arg[1] = "subnet" -> [subnet |-> <<"net", arg[2]>>]
      [] arg[1] = "network_id" -> [network_id |-> PyInt(arg[2])]
      [] arg[1] = "device_iri" -> [device_iri |-> <<"iri", arg[2]>>]

TargetOf(arg) ==
    CASE arg[1] = "subnet" -> SubnetIri(arg[2])
      [] arg[1] = "network_id" -> NetworkIri(arg[2])
      [] arg[1] = "device_iri" -> arg[2]

InitRelations ==
    /\ InitWith(CHOOSE c \in ScanConfigs : c.bbmds = << >> /\ c.subnets = << >>
                                           /\ c.known = {})

\* Node(graph, iri) followed by node.add_properties(<one relation keyword>)
RelationWrite ==
    /\ pc = "start"
    /\ Cardinality({t \in graph : t[2] # RDF_type}) < MaxWrites
    /\ \E n \in {DeviceIri(0), DeviceIri(1)}, c \in RelationCases :
        /\ graph' = BACnetNode_add_properties(
                        BACnetNode_init(graph, n, c[1]), n, c[1], KwargsOf(c[3]))
        /\ ev' = <<"relation_write", <<n, RDF_type, TypeOfClass(c[1])>>,
                   <<n, BACnetNS(c[2]), TargetOf(c[3])>> >>
    /\ UNCHANGED << apiVars, hist, cfg, prev_graph, scannerVars, track_lower,
                    track_upper, windows, cur, n_iams, n_routers, nets_todo,
                    fdt_idx, read_bdt_future, read_fdt_future, req, acks, pc >>

NextRelations == RelationWrite

SpecRelations == InitRelations /\ [][NextRelations]_vars


(***************************************************************************)
(* api.py: the ttl folder, the compare-task queue, the worker process and  *)
(* the graph diff it computes.                                             *)
(* A file name is a one-element tuple, a file content is <<"missing">>,    *)
(* <<"garbage">> (bytes Graph.parse rejects) or <<"turtle", graph>>.       *)
(* A request handler has no await between its queue operations and is one  *)
(* step; the worker is another process and takes one step per queue        *)
(* operation.                                                              *)
(***************************************************************************)
\* os.path.exists(ttl_filepath) / get_file_path(ttl_filename)
Exists(f) == ttl[f] # Missing

\* Graph.parse(ttl_filepath, format="ttl") returns
Parses(f) == ttl[f][1] = "turtle"

\* the graph Graph.parse builds
parse(content) == content[2]

\* str() of a term inside an f-string: the characters of an IRI or the
\* lexical form of a literal; the kind of term is not part of it
StrOfTerm(term) ==
    IF term[1] = "literal" THEN term[2]
    ELSE IF term[1] = "node" THEN <<term[2], term[3]>>
    ELSE term

\* the first graph is returned whole as in_first
graph_diff_first_whole(g1, g2) == << g1 \cap g2, g1, g2 \ g1 >>

\* rdflib.compare.graph_diff on graphs without blank nodes
graph_diff(g1, g2) == << g1 \cap g2, g1 \ g2, g2 \ g1 >>

rdf_diff_source == BACnetNS("rdf_diff_source")

\* Literal(f"{s} {p} {o}")
triple_id(t) ==
    Literal(<<StrOfTerm(t[1]), StrOfTerm(t[2]), StrOfTerm(t[3])>>)

SourceMarkers(in_side, ttl_filename) ==
    { <<triple_id(t), rdf_diff_source, Literal(ttl_filename)>> : t \in in_side }

combined_graph(in_both, in_first, in_second, ttl_filename_1, ttl_filename_2) ==
    in_first \cup SourceMarkers(in_first, ttl_filename_1)
        \cup in_second \cup SourceMarkers(in_second, ttl_filename_2)
        \cup in_both

\* "<ttl_1 without .ttl>_vs_<ttl_2 without .ttl>.ttl"
combined_filename(ttl_filename_1, ttl_filename_2) ==
    <<ttl_filename_1[1], "_vs_", ttl_filename_2[1]>>

\* combined_graph.serialize(destination=...): the file is overwritten
Serialize(folder, name, g) ==
    {c \in folder : c[1] # name} \cup {<<name, g>>}

\* get_list_from_queue(queue): the tasks, all put back in order
get_list_from_queue(queue) == queue

SamePair(task, f1, f2) ==
    \/ (task.ttl_1 = f1 /\ task.ttl_2 = f2)
    \/ (task.ttl_1 = f2 /\ task.ttl_2 = f1)

\* queue_contents of add_ttl_compare_queue
queue_contents ==
    get_list_from_queue(task_queue) \o
        (IF get_list_from_queue(processing_task_queue) # << >>
         THEN <<Head(get_list_from_queue(processing_task_queue))>>
         ELSE << >>)

\* 404: one of the files is not in the ttl folder
AddNotFound(f1, f2) ==
    /\ ~Exists(f1) \/ ~Exists(f2)
    /\ resp' = <<"add_ttl_compare_queue", 404>>
    /\ UNCHANGED << task_queue, processing_task_queue, ttl, compare, worker,
                    issued, scanVars,
                    configVars >>

\* 400: a listed task has the same two files, in either order
AddDuplicate(f1, f2) ==
    /\ Exists(f1) /\ Exists(f2)
    /\ \E k \in DOMAIN queue_contents : SamePair(queue_contents[k], f1, f2)
    /\ resp' = <<"add_ttl_compare_queue", 400>>
    /\ UNCHANGED << task_queue, processing_task_queue, ttl, compare, worker,
                    issued, scanVars,
                    configVars >>

\* 202: the task gets a fresh id and is put on the queue
AddAccepted(f1, f2) ==
    /\ issued < MaxTasks
    /\ Exists(f1) /\ Exists(f2)
    /\ \A k \in DOMAIN queue_contents : ~SamePair(queue_contents[k], f1, f2)
    /\ issued' = issued + 1
    /\ task_queue' = Append(task_queue,
                            [id |-> issued + 1, ttl_1 |-> f1, ttl_2 |-> f2])
    /\ resp' = <<"add_ttl_compare_queue", 202>>
    /\ UNCHANGED << processing_task_queue, ttl, compare, worker, scanVars,
                    configVars >>

add_ttl_compare_queue(f1, f2) ==
    \/ AddNotFound(f1, f2)
    \/ AddDuplicate(f1, f2)
    \/ AddAccepted(f1, f2)

\* 500: the assertion len(processing_task) == 1 fails
DeleteMultipleProcessing(task_id) ==
    /\ Len(get_list_from_queue(processing_task_queue)) > 1
    /\ resp' = <<"delete_ttl_compare_queue_task", 500>>
    /\ UNCHANGED << task_queue, processing_task_queue, ttl, compare, worker,
                    issued, scanVars,
                    configVars >>

\* 400: the id is the one of the task listed as being processed
DeleteInProgress(task_id) ==
    /\ Len(get_list_from_queue(processing_task_queue)) = 1
    /\ Head(processing_task_queue).id = task_id
    /\ resp' = <<"delete_ttl_compare_queue_task", 400>>
    /\ UNCHANGED << task_queue, processing_task_queue, ttl, compare, worker,
                    issued, scanVars,
                    configVars >>

current_task_is(task_id) ==
    /\ processing_task_queue # << >>
    /\ Head(processing_task_queue).id = task_id

\* the queue was drained into all_tasks; new_tasks are those with another id
new_tasks(task_id) == SelectSeq(task_queue, LAMBDA t : t.id # task_id)

\* 404: nothing was filtered out; the handler returns after the drain
DeleteNotFound(task_id) ==
    /\ Len(processing_task_queue) <= 1
    /\ ~current_task_is(task_id)
    /\ Len(new_tasks(task_id)) = Len(task_queue)
    /\ task_queue' = << >>
    /\ resp' = <<"delete_ttl_compare_queue_task", 404>>
    /\ UNCHANGED << processing_task_queue, ttl, compare, worker, issued,
                    scanVars,
                    configVars >>

\* 200: the survivors are put back in order
DeleteRemoved(task_id) ==
    /\ Len(processing_task_queue) <= 1
    /\ ~current_task_is(task_id)
    /\ Len(new_tasks(task_id)) # Len(task_queue)
    /\ task_queue' = new_tasks(task_id)
    /\ resp' = <<"delete_ttl_compare_queue_task", 200>>
    /\ UNCHANGED << processing_task_queue, ttl, compare, worker, issued,
                    scanVars,
                    configVars >>

delete_ttl_compare_queue_task(task_id) ==
    \/ DeleteMultipleProcessing(task_id)
    \/ DeleteInProgress(task_id)
    \/ DeleteNotFound(task_id)
    \/ DeleteRemoved(task_id)

\* DELETE /ttl_file/{ttl_filename}
delete_ttl_file(f) ==
    /\ IF Exists(f)
       THEN /\ ttl' = [ttl EXCEPT ![f] = Missing]
            /\ resp' = <<"delete_ttl_file", 200>>
       ELSE /\ ttl' = ttl
            /\ resp' = <<"delete_ttl_file", 404>>
    /\ UNCHANGED << task_queue, processing_task_queue, compare, worker,
                    issued, scanVars,
                    configVars >>

\* process_compare_rdf_queue: task = task_queue.get()
WorkerGet ==
    /\ worker.pc = "get"
    /\ task_queue # << >>
    /\ task_queue' = Tail(task_queue)
    /\ worker' = [worker EXCEPT !.pc = "mark", !.task = Head(task_queue)]
    /\ UNCHANGED << processing_task_queue, ttl, compare, resp, issued,
                    scanVars,
                    configVars >>

\* processing_task_queue.put(task)
WorkerMark ==
    /\ worker.pc = "mark"
    /\ processing_task_queue' = Append(processing_task_queue, worker.task)
    /\ worker' = [worker EXCEPT !.pc = "run"]
    /\ UNCHANGED << task_queue, ttl, compare, resp, issued, scanVars,
                    configVars >>

\* both files exist and parse: diff, combined graph, serialize,
\* processing_task_queue.get()
WorkerCompare ==
    /\ worker.pc = "run"
    /\ Exists(worker.task.ttl_1) /\ Exists(worker.task.ttl_2)
    /\ Parses(worker.task.ttl_1) /\ Parses(worker.task.ttl_2)
    /\ LET f1 == worker.task.ttl_1
           f2 == worker.task.ttl_2
           d  == graph_diff(parse(ttl[f1]), parse(ttl[f2]))
       IN  /\ compare' = Serialize(compare, combined_filename(f1, f2),
                                   combined_graph(d[1], d[2], d[3], f1, f2))
           /\ worker' = [worker EXCEPT
                           !.pc = "get",
                           !.diff = [in_both |-> d[1], in_first |-> d[2],
                                     in_second |-> d[3]],
                           !.done = @ \cup {worker.task.id}]
    /\ processing_task_queue' = Tail(processing_task_queue)
    /\ UNCHANGED << task_queue, ttl, resp, issued, scanVars,
                    configVars >>

\* the exception leaves the while loop: the process ends
WorkerFailsEscapes ==
    /\ worker.pc = "run"
    /\ \/ ~Exists(worker.task.ttl_1) \/ ~Exists(worker.task.ttl_2)
       \/ ~Parses(worker.task.ttl_1) \/ ~Parses(worker.task.ttl_2)
    /\ worker' = [worker EXCEPT !.pc = "dead",
                                !.errors = @ \cup {worker.task.id}]
    /\ UNCHANGED << task_queue, processing_task_queue, ttl, compare, resp,
                    issued, scanVars,
                    configVars >>

\* FileNotFoundError or a parser error: caught inside the loop and printed
WorkerFails ==
    /\ worker.pc = "run"
    /\ \/ ~Exists(worker.task.ttl_1) \/ ~Exists(worker.task.ttl_2)
       \/ ~Parses(worker.task.ttl_1) \/ ~Parses(worker.task.ttl_2)
    /\ worker' = [worker EXCEPT !.pc = "get",
                                !.errors = @ \cup {worker.task.id}]
    /\ UNCHANGED << task_queue, processing_task_queue, ttl, compare, resp,
                    issued, scanVars,
                    configVars >>

Worker == WorkerGet \/ WorkerMark \/ WorkerCompare \/ WorkerFails

\* the scanner does not run while the API is exercised
IdleConfig ==
    CHOOSE c \in ScanConfigs :
        c.bbmds = << >> /\ c.subnets = << >> /\ c.known = {}

\* two snapshots of one site: the second scan found a second device
SnapshotA == { <<DeviceIri(0), RDFS_label, Literal(StrOfTerm(DeviceIri(0)))>> }

SnapshotB ==
    SnapshotA \cup
        { <<DeviceIri(1), RDFS_label, Literal(StrOfTerm(DeviceIri(0)))>> }

InitCompare ==
    /\ InitScanner(IdleConfig)
    /\ \E content \in {Garbage, Turtle(SnapshotB)} :
          InitApiWith([f \in TtlFiles |->
                         IF f = File1 THEN Turtle(SnapshotA) ELSE content])

NextCompare ==
    \/ \E f1 \in TtlFiles, f2 \in TtlFiles : add_ttl_compare_queue(f1, f2)
    \/ \E task_id \in 1 .. MaxTasks : delete_ttl_compare_queue_task(task_id)
    \/ \E f \in {File2} : delete_ttl_file(f)
    \/ Worker

\* the worker process is scheduled as long as it can take a step
SpecCompare == InitCompare /\ [][NextCompare]_vars /\ WF_vars(Worker)

(***************************************************************************)
(* The diff on its own: every pair of small graphs in the two files, one   *)
(* compare task.                                                           *)
(***************************************************************************)
DiffTriples ==
    { <<DeviceIri(i), RDFS_label, o>> :
        i \in 0 .. (MaxDiffNodes - 1),
        o \in {DeviceIri(0), Literal(StrOfTerm(DeviceIri(0)))} }

InitDiff ==
    /\ InitScanner(IdleConfig)
    /\ \E a \in SUBSET DiffTriples, b \in SUBSET DiffTriples :
          InitApiWith([f \in TtlFiles |->
                         IF f = File1 THEN Turtle(a) ELSE Turtle(b)])

FirstSubmission ==
    /\ issued = 0
    /\ \E f1 \in TtlFiles, f2 \in TtlFiles : AddAccepted(f1, f2)

NextDiff == FirstSubmission \/ WorkerGet \/ WorkerMark \/ WorkerCompare

SpecDiff == InitDiff /\ [][NextDiff]_vars

(***************************************************************************)
(* Agent: config_store_* / config_retrieve_* on the configuration store    *)
(***************************************************************************)
\* the stored dict holds the key alone
config_store_key_alone(store, key, value) ==
    <<"config", [EmptyConfig EXCEPT ![key] = value]>>

\* lines 244-249 and 270-275: get, KeyError -> {}, set the key, set
config_store_key(store, key, value) ==
    LET config == IF store = NoConfig THEN EmptyConfig ELSE store[2]
    IN  <<"config", [config EXCEPT ![key] = value]>>

\* lines 256-262 and 283-288: [] on KeyError, config.get(key, [])
config_retrieve_key(store, key) ==
    IF store = NoConfig THEN PyList(<< >>)
    ELSE IF store[2][key] = Absent THEN PyList(<< >>) ELSE store[2][key]

config_store_bbmd_devices(bbmd_devices) ==
    /\ config_store' =
          config_store_key(config_store, "bbmd_devices", PyList(bbmd_devices))
    /\ config_resp' =
          <<"store", "bbmd_devices", PyList(bbmd_devices), 0, None>>
    /\ UNCHANGED << device_config, task_queue, processing_task_queue, ttl,
                    compare, worker, resp, issued, scanVars >>

config_retrieve_bbmd_devices ==
    /\ config_resp' = <<"retrieve", "bbmd_devices", None, 0,
                        config_retrieve_key(config_store, "bbmd_devices")>>
    /\ UNCHANGED << device_config, config_store, task_queue,
                    processing_task_queue, ttl, compare, worker, resp,
                    issued, scanVars >>

config_store_subnets(new_subnets) ==
    /\ config_store' =
          config_store_key(config_store, "subnets", PyList(new_subnets))
    /\ config_resp' = <<"store", "subnets", PyList(new_subnets), 0, None>>
    /\ UNCHANGED << device_config, task_queue, processing_task_queue, ttl,
                    compare, worker, resp, issued, scanVars >>

config_retrieve_subnets ==
    /\ config_resp' = <<"retrieve", "subnets", None, 0,
                        config_retrieve_key(config_store, "subnets")>>
    /\ UNCHANGED << device_config, config_store, task_queue,
                    processing_task_queue, ttl, compare, worker, resp,
                    issued, scanVars >>

(***************************************************************************)
(* API: device_config.json                                                 *)
(***************************************************************************)
\* device_config_read_key: None without the file, [] without the key
device_config_read_key(file, key) ==
    IF file = NoFile THEN None
    ELSE LET config == json_load(file)
         IN  IF config[key] # Absent THEN config[key] ELSE PyList(<< >>)

\* device_config_write_key: the dict of the file, or {} without the file,
\* with the key set, written through the temporary file
device_config_write_key(file, key, value) ==
    LET config == IF file # NoFile THEN json_load(file) ELSE EmptyConfig
    IN  json_dump([config EXCEPT ![key] = value])

\* list.remove: the first occurrence goes
ListRemove(l, a) ==
    LET i == CHOOSE k \in DOMAIN l :
                 l[k] = a /\ \A j \in 1 .. (k - 1) : l[j] # a
    IN  SubSeq(l, 1, i - 1) \o SubSeq(l, i + 1, Len(l))

\* add_bbmd / add_subnet: `ip not in None` raises TypeError, the request
\* ends with status 500
post_address(file, key, ip) ==
    LET list == device_config_read_key(file, key)
    IN  IF ip = "" THEN [file |-> file, status |-> 200, value |-> list]
        ELSE IF list = None
        THEN [file |-> file, status |-> 500, value |-> None]
        ELSE IF ip \notin Range(list[2])
        THEN LET new == PyList(Append(list[2], ip))
             IN  [file |-> device_config_write_key(file, key, new),
                  status |-> 200, value |-> new]
        ELSE [file |-> file, status |-> 200, value |-> list]

\* delete_bbmd / delete_subnet
delete_address(file, key, ip) ==
    LET list == device_config_read_key(file, key)
    IN  IF ip = "" THEN [file |-> file, status |-> 200, value |-> list]
        ELSE IF list = None
        THEN [file |-> file, status |-> 500, value |-> None]
        ELSE IF ip \in Range(list[2])
        THEN LET new == PyList(ListRemove(list[2], ip))
             IN  [file |-> device_config_write_key(file, key, new),
                  status |-> 200, value |-> new]
        ELSE [file |-> file, status |-> 200, value |-> list]

add_bbmd(ip) ==
    LET r == post_address(device_config, "bbmd_devices", ip)
    IN  /\ device_config' = r.file
        /\ config_resp' = <<"add", "bbmd_devices", <<"addr", ip>>, r.status, r.value>>
        /\ UNCHANGED << config_store, task_queue, processing_task_queue, ttl,
                        compare, worker, resp, issued, scanVars >>

delete_bbmd(ip) ==
    LET r == delete_address(device_config, "bbmd_devices", ip)
    IN  /\ device_config' = r.file
        /\ config_resp' = <<"delete", "bbmd_devices", <<"addr", ip>>, r.status, r.value>>
        /\ UNCHANGED << config_store, task_queue, processing_task_queue, ttl,
                        compare, worker, resp, issued, scanVars >>

add_subnet(ip) ==
    LET r == post_address(device_config, "subnets", ip)
    IN  /\ device_config' = r.file
        /\ config_resp' = <<"add", "subnets", <<"addr", ip>>, r.status, r.value>>
        /\ UNCHANGED << config_store, task_queue, processing_task_queue, ttl,
                        compare, worker, resp, issued, scanVars >>

delete_subnet(ip) ==
    LET r == delete_address(device_config, "subnets", ip)
    IN  /\ device_config' = r.file
        /\ config_resp' = <<"delete", "subnets", <<"addr", ip>>, r.status, r.value>>
        /\ UNCHANGED << config_store, task_queue, processing_task_queue, ttl,
                        compare, worker, resp, issued, scanVars >>

\* get_bbmd_list / get_subnet_list: the response model takes a list of
\* strings, None fails its validation
get_bbmd_list ==
    LET list == device_config_read_key(device_config, "bbmd_devices")
    IN  /\ config_resp' = <<"get", "bbmd_devices", None,
                            IF list = None THEN 500 ELSE 200, list>>
        /\ UNCHANGED << device_config, config_store, task_queue,
                        processing_task_queue, ttl, compare, worker, resp,
                        issued, scanVars >>

get_subnet_list ==
    LET list == device_config_read_key(device_config, "subnets")
    IN  /\ config_resp' = <<"get", "subnets", None,
                            IF list = None THEN 500 ELSE 200, list>>
        /\ UNCHANGED << device_config, config_store, task_queue,
                        processing_task_queue, ttl, compare, worker, resp,
                        issued, scanVars >>

\* device_config_write_key called with a list
DeviceConfigWrite(key, value) ==
    /\ device_config' = device_config_write_key(device_config, key, value)
    /\ config_resp' = <<"write", key, value, 0, None>>
    /\ UNCHANGED << config_store, task_queue, processing_task_queue, ttl,
                    compare, worker, resp, issued, scanVars >>

\* the stores of the two keys in any order, on the agent's store and on the
\* file, from any stored state
InitConfigStore ==
    /\ InitScanner(IdleConfig)
    /\ InitApiQueues([f \in TtlFiles |-> Missing])
    /\ device_config \in {NoFile} \cup {json_dump(c) : c \in Configs}
    /\ config_store \in {NoConfig} \cup {<<"config", c>> : c \in Configs}
    /\ config_resp = NoConfigResp

NextConfigStore ==
    \/ \E l \in Lists : config_store_bbmd_devices(l)
    \/ \E l \in Lists : config_store_subnets(l)
    \/ config_retrieve_bbmd_devices
    \/ config_retrieve_subnets
    \/ \E key \in ConfigKeys, l \in Lists : DeviceConfigWrite(key, PyList(l))
    \/ get_bbmd_list
    \/ get_subnet_list

SpecConfigStore == InitConfigStore /\ [][NextConfigStore]_vars

\* the requests of the API on the file, from any stored state
InitDeviceConfig ==
    /\ InitScanner(IdleConfig)
    /\ InitApiQueues([f \in TtlFiles |-> Missing])
    /\ device_config \in {NoFile} \cup {json_dump(c) : c \in Configs}
    /\ config_store = NoConfig
    /\ config_resp = NoConfigResp

NextDeviceConfig ==
    \/ \E ip \in Addresses \cup {""} : add_bbmd(ip)
    \/ \E ip \in Addresses \cup {""} : delete_bbmd(ip)
    \/ \E ip \in Addresses \cup {""} : add_subnet(ip)
    \/ \E ip \in Addresses \cup {""} : delete_subnet(ip)
    \/ get_bbmd_list
    \/ get_subnet_list

SpecDeviceConfig == InitDeviceConfig /\ [][NextDeviceConfig]_vars

(***************************************************************************)
(* Properties                                                              *)
(***************************************************************************)
\* C1: the Who-Is windows issued by get_device_objects tile
\* [low_limit, high_limit]: the first starts at low_limit, each later one at
\* the previous end + 1, none is empty or passes high_limit, and when device
\* discovery has finished the last one ends at high_limit.
C1_WindowsTile ==
    /\ Len(windows) > 0 => windows[1][1] = cfg.low_limit
    /\ \A i \in DOMAIN windows :
        /\ windows[i][1] <= windows[i][2]
        /\ windows[i][2] <= cfg.high_limit
        /\ i > 1 => windows[i][1] = windows[i - 1][2] + 1
    /\ pc = "routers" =>
        /\ Len(windows) > 0
        /\ windows[Len(windows)][2] = cfg.high_limit

\* a finished device discovery of several windows, one of them cut short by
\* the density of the prior graph
C1_Witness ==
    /\ pc = "routers"
    /\ Len(windows) >= 2
    /\ \E i \in DOMAIN windows :
         windows[i][2] < Min2(windows[i][1] + cfg.empty, cfg.high_limit)

SingleValuedPredicates ==
    { RDFS_label, BACnetNS("device-instance"), BACnetNS("address"),
      BACnetNS("vendor-id"), RDF_type }

\* C2: a node holds at most one value of each single-valued common property
\* (label, device-instance, address, vendor-id, type): a second write with a
\* different value discards the first.
C2_LatestValueOnly ==
    \A t1 \in graph, t2 \in graph :
        (t1[1] = t2[1] /\ t1[2] = t2[2] /\ t1[2] \in SingleValuedPredicates)
            => t1[3] = t2[3]

\* C3: the I-Am of an IP address gives a BBMD node exactly when the address
\* is in the configured BBMD list or the Read-BDT probe returned a table,
\* and a Device node otherwise.
C3_BbmdIffListedOrProbed ==
    [][ (pc = "req_return" /\ req.caller = "probe") =>
          LET iri == DeviceIri(cur[3])
              listed == ip_address(cur[2]) \in Range(cfg.bbmds)
              table == req.result[1] = "bdt"
              asBbmd == <<iri, RDF_type, BACnetNS("BBMD")>>
              asDevice == <<iri, RDF_type, BACnetNS("Device")>>
          IN  IF listed \/ table
              THEN asBbmd \in graph' /\ (asDevice \in graph' => asDevice \in graph)
              ELSE asDevice \in graph' /\ (asBbmd \in graph' => asBbmd \in graph)
      ]_vars

\* a device outside the configured list whose probe returned a table was
\* classified as BBMD
C3_Witness ==
    /\ ev[1] = "i_am_ip"
    /\ ev[4] = "BBMDNode"
    /\ ev[5]
    /\ ip_address(ev[2]) \notin Range(cfg.bbmds)
    /\ <<DeviceIri(ev[3]), RDF_type, BACnetNS("BBMD")>> \in graph

\* C4: when create_and_await_request returns, the registry has no entry for
\* the destination, and outside a running request the registry is empty.
C4_NoRegistryLeak ==
    /\ pc = "req_return" => req.dest \notin DOMAIN read_bdt_future
    /\ pc \notin {"req_task", "req_result", "req_cancelled"}
          => DOMAIN read_bdt_future = {}

\* a read that ended by the timeout of the response has returned
C4_Witness ==
    /\ pc = "req_return"
    /\ ev[1] = "req_timeout"

\* C5: a failed Who-Is leaves graph and scanner state alone, moves the cursor
\* past the window and goes on with the loop; when identifiers remain the
\* next window can be issued.
C5_WhoIsFailureSkipsWindow ==
    /\ [][ (pc = "who_is" /\ ev'[1] = "who_is_failed") =>
             /\ graph' = graph
             /\ scannerVars' = scannerVars
             /\ windows' = windows
             /\ track_lower' = track_upper + 1
             /\ pc' = "window" ]_vars
    /\ []( (ev[1] = "who_is_failed" /\ track_lower <= cfg.high_limit)
             => ENABLED WindowStart )

\* a Who-Is failed and identifiers remain to be scanned
C5_Witness ==
    /\ ev[1] = "who_is_failed"
    /\ pc = "window"
    /\ track_lower <= cfg.high_limit

\* C6: a failed Who-Is-Router-To-Network and a router whose source is not an
\* IP address do not end the scan.
C6_RouterFailuresSwallowed ==
    ev[1] \in {"who_is_router_failed", "router_not_ip"} => pc # "raised"

\* the address add_subnet_to_device is called with, and the node
AssocStep ==
    \/ pc = "set_scanner_node"
    \/ pc = "req_return" /\ req.caller = "probe"

AssocIp == IF pc = "set_scanner_node" THEN ScannerIp ELSE ip_address(cur[2])

AssocNode == IF pc = "set_scanner_node" THEN ScannerIri ELSE DeviceIri(cur[3])

Listed(ip) == \E i \in DOMAIN subnets : InSubnet(ip, subnets[i])

\* C7: the subnet list never holds a subnet twice and changes only by
\* appending the /24 of an address that no listed subnet contains.
C7_SubnetsOnlyGrow ==
    /\ [](\A i \in DOMAIN subnets, j \in DOMAIN subnets :
             i # j => subnets[i] # subnets[j])
    /\ [][ subnets' # subnets =>
             /\ AssocStep
             /\ ~Listed(AssocIp)
             /\ subnets' = Append(subnets, ip_network(AssocIp, 24)) ]_vars

\* two devices of one unlisted /24 were associated and the list holds the
\* synthesized subnet once
C7_Witness ==
    LET s == ip_network(IPv4(100, 64, 50, 9), 24)
    IN  /\ ev[1] = "i_am_ip"
        /\ ev[2] = <<"ip", IPv4(100, 64, 50, 20)>>
        /\ \E t \in graph : t[1] = DeviceIri(1) /\ t[3] = SubnetIri(s)
        /\ \E t \in graph : t[1] = DeviceIri(2) /\ t[3] = SubnetIri(s)
        /\ Cardinality({i \in DOMAIN subnets : subnets[i] = s}) = 1

SubnetEdges ==
    { BACnetNS("device-on-subnet"), BACnetNS("bbmd-broadcast-domain") }

\* s is the subnet resolved for the address: a listed subnet containing it,
\* else its /24
Resolves(s) ==
    IF Listed(AssocIp)
    THEN s \in Range(subnets) /\ InSubnet(AssocIp, s)
    ELSE s = ip_network(AssocIp, 24)

\* the association writes the relation edge to the resolved subnet and no
\* other subnet relation
AttachesOnly(edge) ==
    \E s \in Range(subnets') :
        /\ Resolves(s)
        /\ <<AssocNode, BACnetNS(edge), SubnetIri(s)>> \in graph'
        /\ {t \in graph' \ graph : t[2] \in SubnetEdges}
              \subseteq {<<AssocNode, BACnetNS(edge), SubnetIri(s)>>}

\* C8 as stated: every association attaches one device-on-subnet relation.
C8_DeviceOnSubnetAlways ==
    [][ AssocStep => AttachesOnly("device-on-subnet") ]_vars

AssocIsBbmd ==
    /\ pc = "req_return"
    /\ \/ ip_address(cur[2]) \in Range(cfg.bbmds)
       \/ req.result[1] = "bdt"

\* C8 amended: the association attaches one relation to the resolved subnet,
\* device-on-subnet for the scanner and Device nodes, bbmd-broadcast-domain
\* for BBMD nodes.
C8_OneSubnetRelation ==
    [][ AssocStep =>
          IF AssocIsBbmd THEN AttachesOnly("bbmd-broadcast-domain")
          ELSE AttachesOnly("device-on-subnet") ]_vars

\* a BBMD node was associated with its subnet
C8_Witness ==
    /\ ev[1] = "i_am_ip"
    /\ ev[4] = "BBMDNode"
    /\ \E t \in graph :
          t[1] = DeviceIri(ev[3]) /\ t[2] = BACnetNS("bbmd-broadcast-domain")

\* C9: an I-Am of a non-IP address with network number 0..65534 records the
\* number, attaches device-on-network to that network, attaches no subnet
\* relation, leaves the subnet list alone and does not end the scan.
C9_NetworkFallback ==
    [][ (pc = "i_ams" /\ ev'[1] = "i_am_not_ip"
            /\ addrNet(cur'[2]) \in 0 .. 65534) =>
          /\ addrNet(cur'[2]) \in scanned_networks'
          /\ <<DeviceIri(cur'[3]), BACnetNS("device-on-network"),
               NetworkIri(addrNet(cur'[2]))>> \in graph'
          /\ {t \in graph' \ graph : t[2] \in SubnetEdges} = {}
          /\ subnets' = subnets
          /\ pc' # "raised" ]_vars

\* C10: a router in no known subnet is attached under the scanner node.
C10_UnassociatedRouterEdge ==
    (ev[1] = "router" /\ ev[3]) =>
        \E t \in graph : t[1] = ScannerIri /\ t[3] = RouterIri(ev[2])

\* the networks the router at src announces
RouterNetsOf(src) == (CHOOSE r \in Routers : r.src = src).nets

\* C11: every responding router has a router-to-network relation to every
\* network number it announced.
C11_RouterToNetworkRecorded ==
    ev[1] \in {"router", "router_not_ip"} =>
        \A n \in Range(RouterNetsOf(ev[2])) :
            <<RouterIri(ev[2]), BACnetNS("router-to-network"), NetworkIri(n)>>
                \in graph

\* positions of create_and_await_request
ReqStates == {"req_task", "req_result", "req_cancelled", "req_return"}

\* the phases of get_device_and_router
DevicePhase ==
    \/ pc \in {"window", "who_is", "i_ams"}
    \/ pc \in ReqStates /\ req.caller = "probe"

RouterPhase == pc \in {"routers", "whois_router", "i_am_routers"}

TablePhase ==
    \/ pc = "fdt"
    \/ pc \in ReqStates /\ req.caller = "fdt"

ResolvePhase == pc \in {"set_subnet_network", "done"}

C13_ForeignDeviceTableRead ==
    req.caller = "fdt" => req.request_class = "ReadForeignDeviceTable"

\* the bdt-entry relations of a graph
BdtEdges(g) == {t \in g : t[2] = BACnetNS("bdt-entry")}

\* the relations the classifications of this scan call for: X was built as a
\* BBMD node from a probe that returned a table, Y was built as a BBMD node,
\* and the address of Y is an entry of the table of X
ExpectedBdtEdges ==
    { <<DeviceIri(x[2]), BACnetNS("bdt-entry"), DeviceIri(y[2])>> :
        <<x, y>> \in
          { p \in hist.classified \X hist.classified :
              /\ p[1][3] = "BBMDNode"
              /\ p[1][4][1] = "bdt"
              /\ p[2][3] = "BBMDNode"
              /\ ip_address(p[2][1]) \in Range(p[1][4][2]) } }

\* C14: no bdt-entry relation exists before the end of the scan, and the
\* completed scan holds X bdt-entry Y exactly for the BBMD nodes X whose
\* table was read and the BBMD nodes Y of this scan whose address the table
\* lists, whether Y was found before or after X.
C14_BdtResolvedAfterDiscovery ==
    IF pc = "done"
    THEN BdtEdges(graph) = ExpectedBdtEdges
    ELSE BdtEdges(graph) = {}

\* a completed scan in which the table of a BBMD lists another BBMD node of
\* the scan and an address that matches no node
C14_Witness ==
    /\ pc = "done"
    /\ ev[1] = "scan_done"
    /\ \E x \in hist.classified, y \in hist.classified :
          /\ x[4][1] = "bdt"
          /\ y[3] = "BBMDNode"
          /\ ip_address(y[1]) \in Range(x[4][2])
          /\ \E a \in Range(x[4][2]) :
                \A z \in hist.classified : ip_address(z[1]) # a
          /\ <<DeviceIri(x[2]), BACnetNS("bdt-entry"), DeviceIri(y[2])>>
                \in graph
          /\ x[2] # y[2]

\* C15: a Who-Is-Router-To-Network is issued only after the window loop has
\* covered the whole range and no probe is running; once router discovery
\* has begun no window is issued and no I-Am is handled; a table read for a
\* configured BBMD and the BDT resolution happen only after every discovered
\* network was asked for, and after them no router request or response is
\* handled.
C15_PhasesInSequence ==
    [][ /\ hist.wirtn' # hist.wirtn =>
            /\ track_lower > cfg.high_limit
            /\ Len(windows) > 0
            /\ windows[Len(windows)][2] = cfg.high_limit
            /\ req = NoReq
        /\ (RouterPhase \/ TablePhase \/ ResolvePhase) =>
            /\ windows' = windows
            /\ n_iams' = n_iams
            /\ hist.classified' = hist.classified
            /\ ~DevicePhase'
        /\ ((req'.caller = "fdt" /\ req.caller # "fdt")
              \/ ev'[1] = "scan_done") =>
            /\ ~DevicePhase
            /\ pc \notin {"whois_router", "i_am_routers"}
            /\ Range(hist.wirtn) = scanned_networks
        /\ (TablePhase \/ ResolvePhase) =>
            /\ hist.wirtn' = hist.wirtn
            /\ n_routers' = n_routers
            /\ ~RouterPhase'
      ]_vars

\* a completed scan that went through two windows, classified a device,
\* asked for a network and stored the table read of a configured BBMD
C15_Witness ==
    /\ pc = "done"
    /\ Len(windows) >= 2
    /\ hist.classified # {}
    /\ Len(hist.wirtn) >= 1
    /\ DOMAIN scanned_bbmds_fdt # {}

\* the destinations that hold a slot in a registry
Registered == DOMAIN read_bdt_future \cup DOMAIN read_fdt_future

Waiting == {"req_task", "req_result", "req_cancelled"}

\* C16: the registries hold at most one slot, and only that of the running
\* read; no read runs while a Who-Is or a Who-Is-Router-To-Network is
\* awaited; a slot is registered only when none is held, and only the slot
\* of the running read is ever removed.
C16_OneOutstanding ==
    /\ [](Cardinality(Registered) <= 1)
    /\ [](Registered # {} => pc \in Waiting /\ Registered = {req.dest})
    /\ [](pc \in {"who_is", "whois_router"} => req = NoReq)
    /\ [][ Registered' \ Registered # {} =>
              Registered = {} /\ req = NoReq ]_vars
    /\ [][ Registered \ Registered' # {} =>
              pc \in Waiting /\ Registered \ Registered' = {req.dest} ]_vars

\* a second read to an address that was probed before is waiting for its
\* response
C16_Witness ==
    /\ pc = "req_result"
    /\ Registered = {req.dest}
    /\ \E x \in hist.classified : x[1] = req.dest

\* C17: create_and_await_request returns within one timeout period.
C17_SingleTimeoutBoundsRead ==
    pc = "req_return" => Elapsed <= timeout

\* C18: a probe never ends the scan; a timeout or an error of the exchange
\* gives the result None; on None check_if_device_is_bbmd returns False,
\* stores no table, and the node of the same I-Am is built.
C18_ProbeNeverPropagates ==
    [][ /\ (req.caller = "probe" /\ pc \in ReqStates) =>
              pc' \in ReqStates \cup {"i_ams"}
        /\ (req.caller = "probe" /\ pc \in Waiting
              /\ ev'[1] \in {"req_error", "req_task_timeout", "req_timeout"}) =>
              /\ pc' = "req_return"
              /\ req'.result = <<"None">>
        /\ (req.caller = "probe" /\ pc = "req_return"
              /\ req.result = <<"None">>) =>
              /\ scanned_bbmds_bdt' = scanned_bbmds_bdt
              /\ pc' = "i_ams"
              /\ ev'[1] = "i_am_ip"
              /\ ev'[2] = cur[2]
              /\ ev'[3] = cur[3]
              /\ ~ev'[5]
              /\ <<DeviceIri(cur[3]), BACnetNS("address"),
                   Literal(<<"addr", cur[2]>>)>> \in graph'
      ]_vars

\* the exchange of a probe raised and the device was built from its I-Am
C18_Witness ==
    /\ pc = "i_ams"
    /\ ev[1] = "i_am_ip"
    /\ ev[6] = "req_error"
    /\ ~ev[5]
    /\ ip_address(ev[2]) \notin DOMAIN scanned_bbmds_bdt
    /\ <<DeviceIri(ev[3]), BACnetNS("address"), Literal(<<"addr", ev[2]>>)>>
          \in graph

\* the subjects of a graph
Subjects(g) == {t[1] : t \in g}

RelationPredicates ==
    { BACnetNS("device-on-network"), BACnetNS("device-on-subnet"),
      BACnetNS("bdt-entry"), BACnetNS("bbmd-broadcast-domain") }

C20_OneImmutableType ==
    \A n \in Subjects(graph) :
        Cardinality({t \in graph : t[1] = n /\ t[2] = RDF_type}) = 1

\* the known devices of the prior graph with identifiers in [x, x + n)
KnownIn(x, n) == {i \in x .. (x + n - 1) : Known(prev_graph, i)}

Untouched ==
    /\ graph = {}
    /\ subnets = cfg.subnets
    /\ scanned_networks = {}
    /\ scanned_bbmds = << >>
    /\ scanned_ipaddress_bbmd = EmptyDict
    /\ scanned_bbmds_bdt = EmptyDict
    /\ scanned_bbmds_fdt = EmptyDict
    /\ bbmd_in_subnet = EmptyDict

\* no request of any kind was sent
NoTraffic ==
    /\ windows = << >>
    /\ hist = NoHist
    /\ req = NoReq
    /\ Registered = {}
    /\ acks = {}
    /\ n_iams = 0
    /\ n_routers = 0

\* C23: a failure to construct the application ends get_device_and_router
\* with graph and scanner state as they were and no request sent, and
\* nothing happens afterwards.
C23_SetupFailureBeforeTraffic ==
    /\ [][ ev'[1] = "set_application_failed" =>
             /\ pc' = "raised"
             /\ graph' = graph
             /\ scannerVars' = scannerVars
             /\ NoTraffic' ]_vars
    /\ [](ev[1] = "set_application_failed" =>
             Untouched /\ NoTraffic /\ pc = "raised")

\* the construction of the application failed
C23_Witness ==
    /\ ev[1] = "set_application_failed"
    /\ pc = "raised"
    /\ cfg.subnets # << >>

\* C24: no step of a scan changes prev_graph.
C24_PrevGraphReadOnly ==
    [][ prev_graph' = prev_graph ]_vars

\* a completed scan rediscovered a device the prior graph knows and wrote
\* its node into the scan's graph only
C24_Witness ==
    /\ pc = "done"
    /\ prev_graph = PrevGraphOf({0})
    /\ \E x \in hist.classified : x[2] = 0
    /\ \E t \in graph : t[1] = DeviceIri(0) /\ t \notin prev_graph
    /\ scanned_networks # {}

\* the two graphs the worker last compared
ComparedFirst == parse(ttl[worker.task.ttl_1])

ComparedSecond == parse(ttl[worker.task.ttl_2])

MarkersOf(merged, t) ==
    {x \in merged : x[1] = triple_id(t) /\ x[2] = rdf_diff_source}

\* C26: a merged graph holds every relation of both snapshots; a relation of
\* one snapshot only has one source marker, naming that snapshot, and a
\* relation of both has none.
C26_ProvenanceNamesOwnSide ==
    \A c \in compare :
        LET f1 == <<c[1][1]>>
            f2 == <<c[1][3]>>
            g1 == parse(ttl[f1])
            g2 == parse(ttl[f2])
        IN  /\ (g1 \cup g2) \subseteq c[2]
            /\ \A t \in g1 \ g2 :
                  MarkersOf(c[2], t) =
                      {<<triple_id(t), rdf_diff_source, Literal(f1)>>}
            /\ \A t \in g2 \ g1 :
                  MarkersOf(c[2], t) =
                      {<<triple_id(t), rdf_diff_source, Literal(f2)>>}
            /\ \A t \in g1 \cap g2 : MarkersOf(c[2], t) = {}

\* task i waits in the queue
Queued(i) == \E k \in DOMAIN task_queue : task_queue[k].id = i

\* the worker took task i and has not finished it
Held(i) == worker.pc \in {"mark", "run"} /\ worker.task.id = i

\* the worker marked task i as being processed and has not finished it
InProgress(i) == worker.pc = "run" /\ worker.task.id = i

TaskIds == 1 .. MaxTasks

\* C27: a task whose snapshot is missing or does not parse ends with a
\* printed error and no merged file; the worker goes back to the queue,
\* every queued task leaves the queue and every task taken is finished.
C27_FailureKeepsWorkerAlive ==
    /\ [][ worker'.errors # worker.errors =>
             /\ compare' = compare
             /\ worker'.pc = "get"
             /\ worker'.errors = worker.errors \cup {worker.task.id}
             /\ worker'.done = worker.done ]_vars
    /\ [](worker.pc \in {"get", "mark", "run"})
    /\ \A i \in TaskIds : Queued(i) ~> ~Queued(i)
    /\ \A i \in TaskIds : Held(i) ~> (i \in worker.done \cup worker.errors)

\* a task submitted after a failed one was compared
C27_Witness ==
    \E i \in worker.errors : \E j \in worker.done : j > i

\* tasks queued or taken by the worker and not finished
Unfinished ==
    {task_queue[k] : k \in DOMAIN task_queue} \cup
        (IF worker.pc \in {"mark", "run"} THEN {worker.task} ELSE {})

\* C28: no two unfinished tasks compare the same unordered pair of files.
C28_NoTwoTasksForOnePair ==
    \A t1 \in Unfinished, t2 \in Unfinished :
        t1.id # t2.id => ~SamePair(t1, t2.ttl_1, t2.ttl_2)

\* C29: deleting an id that is neither queued nor in progress answers 404
\* and leaves the queue as it was.
C29_DeleteUnknownKeepsQueue ==
    [][ \A i \in TaskIds :
          ( /\ ~Queued(i) /\ ~Held(i) /\ ~current_task_is(i)
            /\ delete_ttl_compare_queue_task(i) ) =>
              /\ resp' = <<"delete_ttl_compare_queue_task", 404>>
              /\ task_queue' = task_queue ]_vars

\* C30: deleting a queued task answers 200, removes that task alone and
\* keeps the order of the others; deleting the task in progress answers
\* 400 and changes nothing.
C30_DeleteQueuedRemovesOnlyThat ==
    [][ \A i \in TaskIds :
          delete_ttl_compare_queue_task(i) =>
            /\ (Queued(i) /\ ~InProgress(i)) =>
                  /\ resp' = <<"delete_ttl_compare_queue_task", 200>>
                  /\ task_queue' = new_tasks(i)
                  /\ processing_task_queue' = processing_task_queue
                  /\ worker' = worker
            /\ InProgress(i) =>
                  /\ resp' = <<"delete_ttl_compare_queue_task", 400>>
                  /\ task_queue' = task_queue
                  /\ processing_task_queue' = processing_task_queue
                  /\ worker' = worker ]_vars

\* the task GET /ttl_compare_queue reports as processing_task
get_ttl_compare_queue_processing_task ==
    IF get_list_from_queue(processing_task_queue) # << >>
    THEN Head(get_list_from_queue(processing_task_queue))
    ELSE NoTask

\* the tasks the worker has finished handling
Finished == worker.done \cup worker.errors

\* C32: a task the worker has finished handling, with a diff or with an
\* error, is not reported as in progress and does not make a new request
\* for its two files a duplicate.
C32_FinishedTaskNotInProgress ==
    \A i \in Finished :
        /\ get_ttl_compare_queue_processing_task.id # i
        /\ \A k \in DOMAIN queue_contents : queue_contents[k].id # i

\* C33: processing_task_queue never holds more than one task.
C33_AtMostOneProcessing ==
    Len(processing_task_queue) <= 1

\* C34: confirmation never finds, under the source of an Ack, a slot whose
\* future is already completed or cancelled.
C34_AckOnlyToUnresolvedSlot ==
    ev[1] # "ack_invalid_state"

\* a Read-Broadcast-Distribution-Table request of check_if_device_is_bbmd
\* is sent to addr in this step
ProbeSentTo(addr) ==
    /\ pc' = "req_task"
    /\ pc # "req_task"
    /\ req'.caller = "probe"
    /\ req'.request_class = "ReadBroadcastDistributionTable"
    /\ req'.dest = addr
    /\ addr \in DOMAIN read_bdt_future'

\* a request of any kind is started in this step
RequestStarted == pc' = "req_task" /\ pc # "req_task"

\* C39: handling an I-Am from an IP-mappable address sends one BDT probe to
\* that address, listed as BBMD or not; handling any other I-Am sends none;
\* and no probe is sent except for an I-Am.
C39_OneProbePerIpIAm ==
    [][ /\ (n_iams' = n_iams + 1 /\ IsIpMappable(cur'[2])) =>
              ProbeSentTo(cur'[2])
        /\ (n_iams' = n_iams + 1 /\ ~IsIpMappable(cur'[2])) =>
              (~RequestStarted /\ req' = req)
        /\ (RequestStarted /\ req'.caller = "probe") =>
              n_iams' = n_iams + 1 ]_vars

\* probes went to an address of the configured BBMD list and the I-Am of a
\* remote station was handled without one
C39_Witness ==
    /\ \E x \in hist.classified : ip_address(x[1]) \in Range(cfg.bbmds)
    /\ ev[1] = "i_am_not_ip"

\* the targets of the relations named by the edges
TargetsOf(edges) ==
    {t[3] : t \in {x \in graph : \E e \in edges : x[2] = BACnetNS(e)}}

HasType(node_iri, cls) == <<node_iri, RDF_type, TypeOfClass(cls)>> \in graph

\* C38: when the scan is done, every target of a device-on-subnet or
\* bbmd-broadcast-domain relation is a Subnet node and every target of a
\* device-on-network relation is a Network node.
C38_NoDanglingRelation ==
    pc = "done" =>
        /\ \A s \in TargetsOf({"device-on-subnet", "bbmd-broadcast-domain"}) :
              HasType(s, "SubnetNode")
        /\ \A n \in TargetsOf({"device-on-network"}) :
              HasType(n, "NetworkNode")

\* the I-Am whose node the step just wrote: its address, identifier, vendor
IAmNodeWritten == ev'[1] \in {"i_am_ip", "i_am_not_ip"} /\ ev' # ev

\* C37: every node created from an I-Am carries a device-instance property
\* equal to the announced identifier, an address property and a vendor-id
\* reference, for every identifier from 0 and every vendor number from 0.
C37_IAmNodeProperties ==
    [][ IAmNodeWritten =>
          /\ <<DeviceIri(cur'[3]), BACnetNS("device-instance"),
               Literal(PyInt(cur'[3]))>> \in graph'
          /\ <<DeviceIri(cur'[3]), BACnetNS("address"),
               Literal(<<"addr", cur'[2]>>)>> \in graph'
          /\ <<DeviceIri(cur'[3]), BACnetNS("vendor-id"),
               VendorIri(PyInt(cur'[4]))>> \in graph' ]_vars

\* the known devices of the prior graph the window [lo, hi] covers
Covered(lo, hi) == {i \in lo .. hi : Known(prev_graph, i)}

\* the identifiers e of [x, x + empty_step_size) at which the count of known
\* devices from x reaches full_step_size: the full_step_size-th known device
FullthKnown(x) ==
    {e \in x .. (x + cfg.empty - 1) :
        Known(prev_graph, e) /\ Cardinality(Covered(x, e)) = cfg.full}

\* density, and not high_limit, ends the window issued from x
TruncatedForDensity(x) == \E e \in FullthKnown(x) : e <= cfg.high_limit

\* C35: with both step sizes at least 1, a window covers at most
\* full_step_size known devices of the prior graph; a window cut for density
\* covers exactly full_step_size, ending on the full_step_size-th known
\* device at or after the cursor.
C35_WindowCoversAtMostFull ==
    [][ (windows' # windows /\ cfg.full >= 1 /\ cfg.empty >= 1) =>
          LET w == windows'[Len(windows')]
          IN  /\ Cardinality(Covered(w[1], w[2])) <= cfg.full
              /\ TruncatedForDensity(track_lower) =>
                    /\ w[2] \in FullthKnown(track_lower)
                    /\ Cardinality(Covered(w[1], w[2])) = cfg.full ]_vars

\* a window was cut on the second known device after the cursor, below
\* high_limit
C35_Witness ==
    /\ pc = "who_is"
    /\ cfg.full = 2
    /\ TruncatedForDensity(track_lower)
    /\ track_upper \in FullthKnown(track_lower)
    /\ Cardinality(Covered(track_lower, track_upper)) = 2
    /\ track_upper < cfg.high_limit

\* an iteration of the window loop ends, by the failure of the Who-Is or
\* after its I-Ams
IterationEnds == ev' # ev /\ ev'[1] \in {"who_is_failed", "window_end"}

\* C36: whatever integers the step sizes are, every iteration of the window
\* loop moves the cursor strictly forward, on the failure path as on the
\* success path, and discovery issues at most high_limit - low_limit + 1
\* Who-Is requests.
C36_CursorAlwaysAdvances ==
    /\ [][ IterationEnds => track_lower' > track_lower ]_vars
    /\ [](Len(windows) <= cfg.high_limit - cfg.low_limit + 1)

\* what a dict-holding store keeps under the key: Absent without the store
StoredUnder(store, key) ==
    IF store \in {NoConfig, NoFile} THEN Absent ELSE store[2][key]

OtherKey(key) == CHOOSE k \in ConfigKeys : k # key

\* C31: a store of the BBMD device list or of the subnet list replaces that
\* key alone: what the other key holds is unchanged and a retrieve that
\* follows returns the list stored, in the agent's configuration store and
\* in the device configuration file, in any order of stores.
C31_StoreReplacesOneKey ==
    [][ /\ \A l \in Lists :
            /\ config_store_bbmd_devices(l) =>
                 /\ config_retrieve_key(config_store', "bbmd_devices") =
                       PyList(l)
                 /\ StoredUnder(config_store', "subnets") =
                       StoredUnder(config_store, "subnets")
            /\ config_store_subnets(l) =>
                 /\ config_retrieve_key(config_store', "subnets") = PyList(l)
                 /\ StoredUnder(config_store', "bbmd_devices") =
                       StoredUnder(config_store, "bbmd_devices")
        /\ \A key \in ConfigKeys, l \in Lists :
            DeviceConfigWrite(key, PyList(l)) =>
                 /\ device_config_read_key(device_config', key) = PyList(l)
                 /\ StoredUnder(device_config', OtherKey(key)) =
                       StoredUnder(device_config, OtherKey(key)) ]_vars

\* the subnet list was stored over another one while the store holds a
\* non-empty list of BBMD devices
C31_Witness ==
    /\ config_resp[1] = "store"
    /\ config_resp[2] = "subnets"
    /\ config_resp[3] # PyList(<< >>)
    /\ StoredUnder(config_store, "subnets") = config_resp[3]
    /\ StoredUnder(config_store, "bbmd_devices") \notin
          {Absent, PyList(<< >>), config_resp[3]}

Count(l, a) == Cardinality({i \in DOMAIN l : l[i] = a})

\* the step is the POST of ip to the list under key
IsPost(key, ip) ==
    IF key = "bbmd_devices" THEN add_bbmd(ip) ELSE add_subnet(ip)

\* C40: from any stored state, the state without a configuration file
\* included, POST /bbmds and POST /subnets of an address end without error
\* and leave the address in the stored list exactly once; the same POST
\* again leaves the stored list unchanged.
C40_PostIdempotent ==
    [][ \A key \in ConfigKeys, ip \in Addresses :
          IsPost(key, ip) =>
            /\ config_resp'[4] = 200
            /\ device_config' # NoFile
            /\ StoredUnder(device_config', key) # Absent
            /\ Count(StoredUnder(device_config', key)[2], ip) = 1
            /\ post_address(device_config', key, ip).file = device_config'
      ]_vars

====
